---- MODULE Spec2Model ----
(***************************************************************************)
(* The omenix fan-control daemon (src/src/bin/omenix-daemon.rs): the       *)
(* shared DaemonState, the temperature monitor thread, the command         *)
(* handlers and the hardware control points they write.                    *)
(*                                                                         *)
(* Text is modelled as a sequence of one-character strings, so that        *)
(* formatting, parsing, starts_with and contains are computed, not assumed.*)
(***************************************************************************)
EXTENDS Integers, Sequences, FiniteSets, TLC

\* ---------------------------------------------------------------- text
\* String literals of the daemon, the shared types and the client.

S_Max == <<"M","a","x">>
S_Auto == <<"A","u","t","o">>
S_Bios == <<"B","i","o","s">>
S_balanced == <<"b","a","l","a","n","c","e","d">>
S_performance == <<"p","e","r","f","o","r","m","a","n","c","e">>
S_set == <<"s","e","t">>
S_set_performance == <<"s","e","t","_","p","e","r","f","o","r","m","a","n","c","e">>
S_status == <<"s","t","a","t","u","s">>
S_max == <<"m","a","x">>
S_auto == <<"a","u","t","o">>
S_bios == <<"b","i","o","s">>
S_OkPrefix == <<"O","K",":"," ">>
S_ErrorPrefix == <<"E","R","R","O","R",":"," ">>
S_ModeLabel == <<"M","o","d","e",":"," ">>
S_ActualLabel == <<","," ","A","c","t","u","a","l",":"," ">>
S_PerformanceLabel == <<","," ","P","e","r","f","o","r","m","a","n","c","e",":"," ">>
S_TempLabel == <<","," ","T","e","m","p",":"," ">>
S_Unknown == <<"U","n","k","n","o","w","n">>
S_FanModeSetTo == <<"F","a","n"," ","m","o","d","e"," ","s","e","t"," ","t","o",":"," ">>
S_PerfModeSetTo ==
  <<"P","e","r","f","o","r","m","a","n","c","e"," ","m","o","d","e"," ","s","e","t"," ","t",
    "o",":"," ">>
S_InvalidFanMode == <<"I","n","v","a","l","i","d"," ","f","a","n"," ","m","o","d","e">>
S_InvalidPerfMode ==
  <<"I","n","v","a","l","i","d"," ","p","e","r","f","o","r","m","a","n","c","e"," ","m","o",
    "d","e">>
S_FailedFanWrite ==
  <<"F","a","i","l","e","d"," ","t","o"," ","w","r","i","t","e"," ","f","a","n"," ","m","o",
    "d","e",":"," ">>
S_FailedPerfWrite ==
  <<"F","a","i","l","e","d"," ","t","o"," ","w","r","i","t","e"," ","p","e","r","f","o","r",
    "m","a","n","c","e"," ","m","o","d","e",":"," ">>
S_InvalidCommand ==
  <<"I","n","v","a","l","i","d"," ","c","o","m","m","a","n","d","."," ","U","s","e"," ","'",
    "s","e","t"," ","<","m","o","d","e",">","'",","," ","'","s","e","t","_","p","e","r","f",
    "o","r","m","a","n","c","e"," ","<","m","o","d","e",">","'",","," ","o","r"," ","'","s",
    "t","a","t","u","s","'">>
S_NoFanFile ==
  <<"N","o"," ","f","a","n"," ","c","o","n","t","r","o","l"," ","f","i","l","e"," ","f","o",
    "u","n","d">>
S_IoError ==
  <<"P","e","r","m","i","s","s","i","o","n"," ","d","e","n","i","e","d"," ","(","o","s"," ",
    "e","r","r","o","r"," ","1","3",")">>
\* The degree sign and "C" (format!("{}°C", ..)); the sign is one character.
S_DegC == <<"deg","C">>
S_Newline == <<"\n">>

\* Requests a client may send (raw bytes read from the socket).
R_set_max == <<"s","e","t"," ","m","a","x">>
R_set_auto == <<"s","e","t"," ","a","u","t","o">>
R_set_bios == <<"s","e","t"," ","b","i","o","s">>
R_set_MAX == <<"s","e","t"," ","M","A","X">>
R_set_Bios_nl == <<"s","e","t"," ","B","i","o","s","\n">>
R_perf_balanced ==
  <<"s","e","t","_","p","e","r","f","o","r","m","a","n","c","e"," ","b","a","l","a","n","c",
    "e","d">>
R_perf_performance ==
  <<"s","e","t","_","p","e","r","f","o","r","m","a","n","c","e"," ","p","e","r","f","o","r",
    "m","a","n","c","e">>
R_status == <<"s","t","a","t","u","s">>
R_status_sp == <<" ","s","t","a","t","u","s"," ">>
R_set_only == <<"s","e","t">>
R_set_turbo == <<"s","e","t"," ","t","u","r","b","o">>
R_set_max_now == <<"s","e","t"," ","m","a","x"," ","n","o","w">>
R_perf_quiet ==
  <<"s","e","t","_","p","e","r","f","o","r","m","a","n","c","e"," ","q","u","i","e","t">>
R_bogus == <<"b","o","g","u","s">>
R_empty == <<>>
R_SET_max == <<"S","E","T"," ","m","a","x">>
R_perf_Balanced ==
  <<"s","e","t","_","p","e","r","f","o","r","m","a","n","c","e","\t","B","a","l","a","n","c",
    "e","d","\r","\n">>

\* ---------------------------------------------------------------- types
\* src/src/types.rs: the enums, their Display / Debug / FromStr.
FanMode == {"Max", "Auto", "Bios"}
HardwareFanMode == {"Max", "Bios"}
PerformanceMode == {"Balanced", "Performance"}
\* Option<T> and Result<T, _> of a number: <<>> for None / Err, <<x>> for Some(x) / Ok(x).
NoneV == <<>>
Some(x) == <<x>>
Val(o) == o[1]
\* "no mode": a local that holds no value.
None == "None"
ParseErr == "Err"

UpperChars ==
  <<"A","B","C","D","E","F","G","H","I","J","K","L","M","N","O","P","Q","R","S","T","U",
    "V","W","X","Y","Z">>
LowerChars ==
  <<"a","b","c","d","e","f","g","h","i","j","k","l","m","n","o","p","q","r","s","t","u",
    "v","w","x","y","z">>

\* str::to_lowercase, one character.
ToLowerChar(c) ==
  IF \E i \in 1..Len(UpperChars) : UpperChars[i] = c
  THEN LowerChars[CHOOSE i \in 1..Len(UpperChars) : UpperChars[i] = c]
  ELSE c

to_lowercase(s) == [i \in 1..Len(s) |-> ToLowerChar(s[i])]

IsWhitespace(c) == c \in {" ", "\n", "\t", "\r"}

\* str::split_whitespace: the maximal runs of non-whitespace characters, in order.
RECURSIVE SplitFrom(_, _, _, _)
SplitFrom(s, i, cur, acc) ==
  IF i > Len(s)
  THEN IF cur = <<>> THEN acc ELSE Append(acc, cur)
  ELSE IF IsWhitespace(s[i])
       THEN SplitFrom(s, i + 1, <<>>, IF cur = <<>> THEN acc ELSE Append(acc, cur))
       ELSE SplitFrom(s, i + 1, Append(cur, s[i]), acc)

split_whitespace(s) == SplitFrom(s, 1, <<>>, <<>>)

FanMode_Display(m) ==
  CASE m = "Max" -> S_Max
    [] m = "Auto" -> S_Auto
    [] m = "Bios" -> S_Bios

\* Mutant of FanMode_from_str: a token that names no mode is taken as Auto.
FanMode_from_str_Lenient(s) ==
  LET l == to_lowercase(s) IN
  CASE l = S_max -> "Max"
    [] l = S_bios -> "Bios"
    [] OTHER -> "Auto"

FanMode_from_str(s) ==
  LET l == to_lowercase(s) IN
  CASE l = S_max -> "Max"
    [] l = S_auto -> "Auto"
    [] l = S_bios -> "Bios"
    [] OTHER -> ParseErr

\* #[derive(Debug)] prints the variant name.
HardwareFanMode_Debug(m) ==
  CASE m = "Max" -> S_Max
    [] m = "Bios" -> S_Bios

PerformanceMode_Display(m) ==
  CASE m = "Balanced" -> S_balanced
    [] m = "Performance" -> S_performance

PerformanceMode_from_str(s) ==
  LET l == to_lowercase(s) IN
  CASE l = S_balanced -> "Balanced"
    [] l = S_performance -> "Performance"
    [] OTHER -> ParseErr

\* DaemonClient::set_fan_mode: the command it sends for a mode.
ClientSetCommand(mode) == S_set \o <<" ">> \o to_lowercase(FanMode_Display(mode))

\* Mutant of ClientPerfCommand: the verb of the fan command is used.
ClientPerfCommand_SetVerb(mode) == S_set \o <<" ">> \o PerformanceMode_Display(mode)

\* DaemonClient::set_performance_mode: the command it sends for a mode.
ClientPerfCommand(mode) == S_set_performance \o <<" ">> \o PerformanceMode_Display(mode)

\* Every command DaemonClient sends.
ClientCommands ==
  {ClientSetCommand(m) : m \in FanMode} \cup {ClientPerfCommand(m) : m \in PerformanceMode}
    \cup {S_status}

\* The requests the daemon is given: the client's, and two it rejects.
Requests ==
  {R_set_max, R_set_auto, R_set_bios, R_perf_balanced, R_perf_performance, R_status,
   R_set_turbo, R_bogus} \cup ClientCommands
\* The same with other spellings, spacing and arities.
AllRequests ==
  Requests \cup {R_set_MAX, R_set_Bios_nl, R_status_sp, R_set_only, R_set_max_now,
                 R_perf_quiet, R_empty, R_SET_max, R_perf_Balanced}

Digits == <<"0","1","2","3","4","5","6","7","8","9">>

\* Display of a non-negative integer: its decimal digits.
RECURSIVE NatToStr(_)
NatToStr(n) ==
  IF n < 10 THEN <<Digits[n + 1]>>
  ELSE NatToStr(n \div 10) \o <<Digits[(n % 10) + 1]>>

IntToStr(n) == IF n < 0 THEN <<"-">> \o NatToStr(0 - n) ELSE NatToStr(n)

\* i32 division truncates toward zero.
TruncDiv(a, b) == IF a >= 0 THEN a \div b ELSE 0 - ((0 - a) \div b)

\* str::starts_with
StartsWith(s, p) == Len(p) <= Len(s) /\ SubSeq(s, 1, Len(p)) = p

\* str::contains
Contains(s, p) ==
  \E i \in 1..(Len(s) - Len(p) + 1) : SubSeq(s, i, i + Len(p) - 1) = p

\* ---------------------------------------------------------------- configuration
\* AppConfig defaults (clap default_value), degrees Celsius and sample counts.
temp_threshold_high == 75
temp_threshold_low == 70
consecutive_high_temp_limit == 3
consecutive_low_temp_limit == 3
\* Seconds between monitor ticks; the time unit of the model is chosen so that a
\* command can arrive strictly between two ticks.
temp_check_interval == 2
\* max_fan_write_interval: Option<u64>, not configured by default.
Intervals == {NoneV, Some(2), Some(3)}

\* What the sensors can report (millidegrees), at and next to both thresholds.
Temps == {70000, 70001, 75000, 75001}
SensorErr == NoneV
SensorOutcomes == {Some(t) : t \in Temps} \cup {SensorErr}

\* ---------------------------------------------------------------- read_temperature
\* A sensor file: whether File::open and read_to_string succeed, and its text.
OpenFails == [io |-> "OpenErr", text |-> <<>>]
ReadFails == [io |-> "ReadErr", text |-> <<>>]
Readable(text) == [io |-> "Ok", text |-> text]

\* str::trim: the text without its leading and trailing whitespace.
trim(s) ==
  LET solid == {i \in 1..Len(s) : ~IsWhitespace(s[i])} IN
  IF solid = {} THEN <<>>
  ELSE SubSeq(s, CHOOSE i \in solid : \A j \in solid : i <= j,
                 CHOOSE i \in solid : \A j \in solid : j <= i)

IsDigit(c) == \E i \in 1..Len(Digits) : Digits[i] = c
DigitVal(c) == (CHOOSE i \in 1..Len(Digits) : Digits[i] = c) - 1

\* The digit loop of i32::from_str: a non-digit or a value outside i32 is an
\* error; a negative number is accumulated downwards.
RECURSIVE ParseDigits(_, _, _, _)
ParseDigits(s, i, acc, negative) ==
  IF i > Len(s) THEN Some(acc)
  ELSE IF ~IsDigit(s[i]) THEN NoneV
  ELSE LET d == DigitVal(s[i]) IN
       IF negative
       THEN IF acc < 0 - 214748364 \/ (acc = 0 - 214748364 /\ d > 8) THEN NoneV
            ELSE ParseDigits(s, i + 1, acc * 10 - d, negative)
       ELSE IF acc > 214748364 \/ (acc = 214748364 /\ d > 7) THEN NoneV
            ELSE ParseDigits(s, i + 1, acc * 10 + d, negative)

\* str::parse::<i32>: an optional sign, then at least one digit.
parse_i32(s) ==
  IF s = <<>> THEN NoneV
  ELSE IF s[1] \in {"+", "-"}
       THEN IF Len(s) = 1 THEN NoneV ELSE ParseDigits(s, 2, 0, s[1] = "-")
       ELSE ParseDigits(s, 1, 0, FALSE)

\* The filter_map closure: None for a file that cannot be opened or read, or
\* whose trimmed text is not an i32.
SensorReading(file) ==
  IF file.io # "Ok" THEN NoneV ELSE parse_i32(trim(file.text))

\* filter_map(..).max(): the readings are folded in path order and a later
\* reading replaces the held one unless it is smaller.
RECURSIVE MaxReading(_, _, _)
MaxReading(files, i, best) ==
  IF i > Len(files) THEN best
  ELSE LET r == SensorReading(files[i]) IN
       MaxReading(files, i + 1,
                  IF r = NoneV THEN best
                  ELSE IF best = NoneV \/ Val(r) >= Val(best) THEN r ELSE best)

\* The first reading that can be had, whichever is larger.
read_temperature_First(files) ==
  IF files = <<>> THEN [ok |-> FALSE, kind |-> "NotFound", temp |-> 0]
  ELSE LET have == {i \in 1..Len(files) : SensorReading(files[i]) # NoneV} IN
       IF have = {} THEN [ok |-> FALSE, kind |-> "InvalidData", temp |-> 0]
       ELSE [ok |-> TRUE, kind |-> "Ok",
             temp |-> Val(SensorReading(files[CHOOSE i \in have : \A j \in have : i <= j]))]

\* read_temperature: NotFound when the pattern matches nothing, InvalidData when
\* no file gives a reading, else the largest reading.
read_temperature(files) ==
  IF files = <<>> THEN [ok |-> FALSE, kind |-> "NotFound", temp |-> 0]
  ELSE LET max_temp == MaxReading(files, 1, NoneV) IN
       IF max_temp = NoneV THEN [ok |-> FALSE, kind |-> "InvalidData", temp |-> 0]
       ELSE [ok |-> TRUE, kind |-> "Ok", temp |-> Val(max_temp)]

\* No call of read_temperature has returned yet.
NotRead == [ok |-> FALSE, kind |-> "NotRead", temp |-> 0]

\* Sensor texts: two temperatures around the upper threshold, one below zero,
\* one that is no number and one beyond i32.
SensorTexts ==
  { <<"7","0","0","0","0","\n">>, <<"7","5","0","0","1","\n">>, <<"-","1","0","0","0","\n">>,
    <<"7","x","\n">>, <<"2","1","4","7","4","8","3","6","4","8","\n">> }
SensorFiles == {OpenFails, ReadFails} \cup {Readable(t) : t \in SensorTexts}
\* The most sensor files the pattern matches.
MaxFiles == 3

\* fans.rs, the in-process fan control of the tray application: its constants
\* (millidegrees, seconds, samples) and its initial state.
TEMP_THRESHOLD == 75000
MAX_FAN_WRITE_INTERVAL == 100
TEMP_CHECK_INTERVAL == 5
CONSECUTIVE_HIGH_TEMP_LIMIT == 3

\* AppState::new
AppStateNew ==
  [user_mode |-> "Bios", actual_mode |-> "Bios", last_fan_write |-> NoneV,
   consecutive_high_temps |-> 0, temp_monitoring_active |-> FALSE]

\* Outcomes of a write to a control point: done, no file matched the pattern,
\* or the open / write failed.
WriteOk == "Ok"
WriteOutcomes == {WriteOk, "NotFound", "IoError"}

\* The counters are u32; a transition write can fail only while its counter is
\* below MaxCount, which keeps the retries of a failing write finite.
MaxCount == 4

Main == "main"
Handlers == {"h1"}
CmdThreads == {Main} \cup Handlers

VARIABLES
  max_fan_write_interval, \* AppConfig.max_fan_write_interval, fixed at startup
  state,                  \* the DaemonState behind the mutex
  fan_file,               \* content of the fan control point (pwm1_enable)
  mpc,                    \* monitor thread: where it is in its loop
  current_temp,           \* monitor thread: the sample of this tick
  sleep_left,             \* monitor thread: time left of thread::sleep
  tick_write,             \* the fan write issued in the monitor's current / last tick
  should_handle_auto_mode, \* monitor thread: the local set in the tick's check block
  pc,                     \* main and handler threads: where each is
  request,                \* handler: the request it read
  new_mode,               \* set_fan_mode / set_performance_mode: the argument
  actual_mode_to_set,     \* set_fan_mode: the resolved hardware mode
  cmd_write,              \* the control-point write issued by the command in progress
  response,               \* handler: the response it sent
  since_max_write,        \* time since the last successful fan write after the latest set, if it wrote Max
  last_set,               \* mode of the latest set command that updated the state
  state_created,          \* main: DaemonState::new has run
  lock,                   \* the thread holding the DaemonState mutex, or "free"
  run_high,               \* history: consecutive high samples seen in Auto/Bios
  run_low,                \* history: consecutive low samples seen in Auto/Max
  run_low_nd,             \* as run_low, counting only ticks with no re-assertion due
  from_zero,              \* history: since the latest set, Auto/Bios with counters 0 was seen
  cmd_before,             \* history: the state when the command in progress began
  tick_before,            \* history: both counters when the tick in progress began
  failed_write,           \* history: mode of a failed fan write not yet written again
  det_a,                  \* replay: the DaemonState of a first run of an input sequence
  det_b,                  \* replay: that of a second run, with other tick times
  temp_inputs,            \* the files matching hwmon*/temp*_input, in glob order
  temp_read,              \* the result of the latest read_temperature call
  read_current,           \* history: temp_read was read from the present temp_inputs
  app_state,              \* fans.rs: the AppState behind the mutex
  fan_value,              \* fans.rs: the value the helper last wrote to the device
  fct_pc,                 \* fans.rs: where the fan control thread is in its loop
  fct_temp,               \* fans.rs: the sample the control thread last read
  status_write,           \* fans.rs: the mode set_fan_status has yet to write, or None
  forced_max              \* history: the control thread forced Max since the latest set_fan_status

vars ==
  <<max_fan_write_interval, state, fan_file, mpc, current_temp, sleep_left,
    tick_write, should_handle_auto_mode, pc, request, new_mode, actual_mode_to_set,
    cmd_write, response,
    since_max_write, last_set, state_created, lock, run_high, run_low, run_low_nd, from_zero, cmd_before,
    tick_before, failed_write, det_a, det_b, temp_inputs, temp_read, read_current,
    app_state, fan_value, fct_pc, fct_temp, status_write, forced_max>>

\* ---------------------------------------------------------------- the critical sections
\* Each operator is one section of code run under the DaemonState mutex, as a
\* function of the state it finds.  last_fan_write holds the time elapsed since
\* the Instant it records (0 at Instant::now()), or None.

\* DaemonState::new
NewDaemonState ==
  [user_mode |-> "Auto", actual_mode |-> "Bios", performance_mode |-> "Performance",
   last_fan_write |-> NoneV, consecutive_high_temps |-> 0, consecutive_low_temps |-> 0,
   temp_monitoring_active |-> FALSE, current_temp |-> NoneV]

\* Mutant of FanValue: Max is written as manual control.
FanValue_ManualForMax(mode) == IF mode = "Max" THEN "1" ELSE "2"

\* write_fan_mode: the literal written for a hardware mode.
FanValue(mode) ==
  CASE mode = "Max" -> "0"
    [] mode = "Bios" -> "2"

\* Mutant of ResolveActualMode: a reading at the threshold already counts as hot.
ResolveActualMode_AtThreshold(mode, sensor) ==
  CASE mode = "Max" -> "Max"
    [] mode = "Auto" ->
         IF sensor # SensorErr /\ Val(sensor) >= temp_threshold_high * 1000 THEN "Max" ELSE "Bios"
    [] mode = "Bios" -> "Bios"

\* Mutant of ResolveActualMode: Auto never starts in Max.
ResolveActualMode_AutoIsBios(mode, sensor) == IF mode = "Max" THEN "Max" ELSE "Bios"

\* set_fan_mode: the hardware mode resolved before the state is updated; for
\* Auto from one sensor read.
ResolveActualMode(mode, sensor) ==
  CASE mode = "Max" -> "Max"
    [] mode = "Auto" ->
         IF sensor # SensorErr /\ Val(sensor) > temp_threshold_high * 1000 THEN "Max" ELSE "Bios"
    [] mode = "Bios" -> "Bios"

\* Mutant of SetUpdate: Bios leaves the monitoring flag as it was.
SetUpdate_BiosKeepsMonitoring(s, mode, actual) ==
  [s EXCEPT !.user_mode = mode,
            !.actual_mode = actual,
            !.consecutive_high_temps = 0,
            !.last_fan_write = IF mode = "Max" THEN Some(0) ELSE NoneV,
            !.temp_monitoring_active = IF mode = "Bios" THEN @ ELSE (mode = "Auto")]

\* Mutant of SetUpdate: the high counter survives the command.
SetUpdate_KeepsHighCount(s, mode, actual) ==
  [s EXCEPT !.user_mode = mode,
            !.actual_mode = actual,
            !.last_fan_write = IF mode = "Max" THEN Some(0) ELSE NoneV,
            !.temp_monitoring_active = (mode = "Auto")]

\* set_fan_mode: the "Update state" block.
SetUpdate(s, mode, actual) ==
  [s EXCEPT !.user_mode = mode,
            !.actual_mode = actual,
            !.consecutive_high_temps = 0,
            !.last_fan_write = IF mode = "Max" THEN Some(0) ELSE NoneV,
            !.temp_monitoring_active = (mode = "Auto")]

\* set_performance_mode: the "Update state" block.
\* Mutant of PerfUpdate: the command also clears the write timestamp.
PerfUpdate_ClearsTimestamp(s, mode) ==
  [s EXCEPT !.performance_mode = mode, !.last_fan_write = NoneV]

PerfUpdate(s, mode) == [s EXCEPT !.performance_mode = mode]

\* Mutant of StoreTemp: the sample is not stored.
StoreTemp_Dropped(s, temp) == s

\* The monitor stores the sample it read.
StoreTemp(s, temp) == [s EXCEPT !.current_temp = Some(temp)]

\* last_write.elapsed() >= Duration::from_secs(interval)
Elapsed(s) == Val(s.last_fan_write) >= Val(max_fan_write_interval)

\* Mutant of ShouldHandleMaxMode: the write is due whether or not an interval
\* is configured.
ShouldHandleMaxMode_Unconfigured(s) == s.user_mode = "Max"

\* Mutant of ShouldHandleMaxMode: the user mode is not tested.
ShouldHandleMaxMode_AnyMode(s) ==
  /\ max_fan_write_interval # NoneV
  /\ (s.last_fan_write # NoneV => Elapsed(s))

\* The monitor's "Check what we need to do" block.
ShouldHandleMaxMode(s) ==
  /\ s.user_mode = "Max"
  /\ max_fan_write_interval # NoneV
  /\ (s.last_fan_write # NoneV => Elapsed(s))

\* Mutant of ShouldHandleAutoMode: the auto-mode block is asked for in every
\* user mode but Bios.
ShouldHandleAutoMode_NotBios(s) == s.user_mode # "Bios"

ShouldHandleAutoMode(s) == s.user_mode = "Auto" /\ s.temp_monitoring_active

\* Commit after the periodic write in Max mode succeeded.
MaxCommit(s) == [s EXCEPT !.last_fan_write = Some(0), !.actual_mode = "Max"]

\* Mutant of ShouldRewriteMax: an interval that is not configured falls back to
\* a default.
ShouldRewriteMax_DefaultInterval(s) ==
  /\ s.last_fan_write # NoneV
  /\ Val(s.last_fan_write) >= (IF max_fan_write_interval = NoneV THEN temp_check_interval + 1
                                ELSE Val(max_fan_write_interval))

\* Auto mode, hardware in Max: is the periodic re-assertion due?
ShouldRewriteMax(s) ==
  /\ max_fan_write_interval # NoneV
  /\ s.last_fan_write # NoneV
  /\ Elapsed(s)

\* The monitor's auto-mode block up to the point where it releases the lock,
\* for given thresholds (degrees) and limits: the state it leaves and what the
\* thread does next.
AutoCheckWith(s, temp, high_thr, low_thr, high_limit, low_limit) ==
  IF s.actual_mode # "Max"
  THEN IF temp > high_thr * 1000
       THEN LET n == s.consecutive_high_temps + 1 IN
            [st |-> [s EXCEPT !.consecutive_high_temps = n],
             next |-> IF n >= high_limit THEN "to_max_write" ELSE "sleep"]
       ELSE [st |-> [s EXCEPT !.consecutive_high_temps = 0], next |-> "sleep"]
  ELSE IF ShouldRewriteMax(s)
       THEN [st |-> s, next |-> "rewrite_write"]
       ELSE IF temp <= low_thr * 1000
            THEN LET n == s.consecutive_low_temps + 1 IN
                 [st |-> [s EXCEPT !.consecutive_low_temps = n],
                  next |-> IF n >= low_limit THEN "to_bios_write" ELSE "sleep"]
            ELSE [st |-> [s EXCEPT !.consecutive_low_temps = 0], next |-> "sleep"]

\* Mutants of AutoCheck: one threshold for both directions; the high threshold
\* taken from the low one; limits one too large.
AutoCheck_OneThreshold(s, temp) ==
  AutoCheckWith(s, temp, temp_threshold_high, temp_threshold_high,
                consecutive_high_temp_limit, consecutive_low_temp_limit)
AutoCheck_HighAtLow(s, temp) ==
  AutoCheckWith(s, temp, temp_threshold_low, temp_threshold_low,
                consecutive_high_temp_limit, consecutive_low_temp_limit)
AutoCheck_OffByOne(s, temp) ==
  AutoCheckWith(s, temp, temp_threshold_high, temp_threshold_low,
                consecutive_high_temp_limit + 1, consecutive_low_temp_limit + 1)

\* The block with the daemon's configuration.
AutoCheck(s, temp) ==
  AutoCheckWith(s, temp, temp_threshold_high, temp_threshold_low,
                consecutive_high_temp_limit, consecutive_low_temp_limit)

\* Commit after the Bios -> Max write succeeded.
ToMaxCommit(s) ==
  [s EXCEPT !.actual_mode = "Max", !.last_fan_write = Some(0), !.consecutive_high_temps = 0]

\* Mutant of RewriteCommit: the re-assertion also ends the run of low samples.
RewriteCommit_ResetsLow(s) ==
  [s EXCEPT !.last_fan_write = Some(0), !.consecutive_low_temps = 0]

\* Commit after the re-assertion write in Auto mode succeeded.
RewriteCommit(s) == [s EXCEPT !.last_fan_write = Some(0)]

\* Commit after the Max -> Bios write succeeded.
ToBiosCommit(s) ==
  [s EXCEPT !.actual_mode = "Bios", !.last_fan_write = NoneV, !.consecutive_low_temps = 0]

\* Mutant of StatusText: "Mode:" reports the hardware mode.
StatusText_ModeFromHardware(s) ==
  S_ModeLabel \o HardwareFanMode_Debug(s.actual_mode)
    \o S_ActualLabel \o HardwareFanMode_Debug(s.actual_mode)
    \o S_PerformanceLabel \o PerformanceMode_Display(s.performance_mode)
    \o S_TempLabel \o S_Unknown

\* handle_client_request, ["status"]: the payload built from one locked snapshot.
StatusText(s) ==
  LET temp_str == IF s.current_temp = NoneV THEN S_Unknown
                  ELSE IntToStr(TruncDiv(Val(s.current_temp), 1000)) \o S_DegC
  IN S_ModeLabel \o FanMode_Display(s.user_mode)
       \o S_ActualLabel \o HardwareFanMode_Debug(s.actual_mode)
       \o S_PerformanceLabel \o PerformanceMode_Display(s.performance_mode)
       \o S_TempLabel \o temp_str

\* handle_client: the bytes sent for a result of handle_client_request.
OkResponse(body) == S_OkPrefix \o body \o S_Newline
ErrResponse(body) == S_ErrorPrefix \o body \o S_Newline

\* io::Error's Display for the two ways a write fails.
WriteErrText(outcome) == IF outcome = "NotFound" THEN S_NoFanFile ELSE S_IoError

\* ---------------------------------------------------------------- time and history
\* Elapsed times are compared only with the configured interval, so they are
\* kept up to it; with no interval configured, up to one unit more than a tick.
AgeCap ==
  IF max_fan_write_interval = NoneV THEN temp_check_interval + 1
  ELSE Val(max_fan_write_interval)

Min(a, b) == IF a < b THEN a ELSE b

Aged(s) ==
  IF s.last_fan_write = NoneV THEN s
  ELSE [s EXCEPT !.last_fan_write = Some(Min(Val(s.last_fan_write) + 1, AgeCap))]

\* fan_file after write_fan_mode(mode): a whole-value overwrite on success.
FanFileAfter(mode, outcome) == IF outcome = WriteOk THEN FanValue(mode) ELSE fan_file

NoWrite == [kind |-> "none"]
FanWrite(mode, outcome, why) ==
  [kind |-> "fan", mode |-> mode, ok |-> (outcome = WriteOk), why |-> why]
\* write_performance_mode writes mode.to_string() to the platform profile, which
\* the daemon never reads back.
PerfWriteRec(mode, outcome) ==
  [kind |-> "perf", mode |-> mode, ok |-> (outcome = WriteOk), why |-> "set_performance",
   value |-> PerformanceMode_Display(mode)]

\* The history counters after a successful monitor sample taken in state s.
RunHighAfter(s, temp) ==
  IF s.user_mode = "Auto" /\ s.actual_mode = "Bios" /\ temp > temp_threshold_high * 1000
  THEN Min(run_high + 1, consecutive_high_temp_limit) ELSE 0

RunLowAfter(s, temp) ==
  IF s.user_mode = "Auto" /\ s.actual_mode = "Max" /\ temp <= temp_threshold_low * 1000
  THEN Min(run_low + 1, consecutive_low_temp_limit) ELSE 0

\* A tick on which the re-assertion is due is left out: its sample neither
\* counts nor ends the run.
RunLowNdAfter(s, temp) ==
  IF s.user_mode = "Auto" /\ s.actual_mode = "Max"
  THEN IF ShouldRewriteMax(s) THEN run_low_nd
       ELSE IF temp <= temp_threshold_low * 1000
            THEN Min(run_low_nd + 1, consecutive_low_temp_limit) ELSE 0
  ELSE 0

ZeroStart(s) ==
  /\ s.user_mode = "Auto" /\ s.actual_mode = "Bios"
  /\ s.consecutive_high_temps = 0 /\ s.consecutive_low_temps = 0

\* ---------------------------------------------------------------- initial state
\* main is entered: nothing is created yet (state holds what DaemonState::new
\* will make of it), the monitor thread and the socket server are not started.
Init ==
  /\ max_fan_write_interval \in Intervals
  /\ state = NewDaemonState
  /\ fan_file = "2"
  /\ mpc = "unstarted"
  /\ current_temp = NoneV
  /\ sleep_left = temp_check_interval
  /\ tick_write = NoWrite
  /\ should_handle_auto_mode = FALSE
  /\ pc = [t \in CmdThreads |-> IF t = Main THEN "euid" ELSE "idle"]
  /\ request = [t \in CmdThreads |-> <<>>]
  /\ new_mode = [t \in CmdThreads |-> None]
  /\ actual_mode_to_set = [t \in CmdThreads |-> None]
  /\ cmd_write = [t \in CmdThreads |-> NoWrite]
  /\ response = [t \in CmdThreads |-> <<>>]
  /\ since_max_write = NoneV
  /\ last_set = None
  /\ state_created = FALSE
  /\ lock = "free"
  /\ run_high = 0
  /\ run_low = 0
  /\ run_low_nd = 0
  /\ from_zero = FALSE
  /\ cmd_before = NewDaemonState
  /\ tick_before = <<0, 0>>
  /\ failed_write = None
  /\ det_a = NewDaemonState
  /\ det_b = NewDaemonState
  /\ temp_inputs = <<>>
  /\ temp_read = NotRead
  /\ read_current = FALSE
  /\ app_state = AppStateNew
  /\ fan_value = "2"
  /\ fct_pc = "sleep"
  /\ fct_temp = NoneV
  /\ status_write = None
  /\ forced_max = FALSE

Started == pc[Main] = "done"

cmd_vars == <<pc, request, new_mode, actual_mode_to_set, cmd_write, response>>
mon_vars == <<mpc, current_temp, sleep_left, tick_write, should_handle_auto_mode>>
hist_vars ==
  <<run_high, run_low, run_low_nd, from_zero, since_max_write, cmd_before, tick_before,
    failed_write>>
det_vars == <<det_a, det_b>>
read_vars == <<temp_inputs, temp_read, read_current>>
fans_vars == <<app_state, fan_value, fct_pc, fct_temp, status_write, forced_max>>
side_vars == <<read_vars, fans_vars>>
aux_vars == <<hist_vars, det_vars, side_vars>>
hw_vars == <<fan_file>>
fixed_vars == <<max_fan_write_interval, state_created, lock>>

\* ---------------------------------------------------------------- commands
\* handle_client_request: request.split_whitespace().collect(), for every request.
Parts == [req \in AllRequests |-> split_whitespace(req)]

\* set_fan_mode up to its "Update state" block: the threshold is read from the
\* immutable config and, for Auto, the sensors are read once; no field of the
\* state is consulted.
BeginSet(t, req, mode, sensor) ==
  /\ lock = "free"
  /\ pc' = [pc EXCEPT ![t] = "set_update"]
  /\ request' = [request EXCEPT ![t] = req]
  /\ new_mode' = [new_mode EXCEPT ![t] = mode]
  /\ actual_mode_to_set' = [actual_mode_to_set EXCEPT ![t] = ResolveActualMode(mode, sensor)]
  /\ cmd_write' = [cmd_write EXCEPT ![t] = NoWrite]
  /\ UNCHANGED <<response, fixed_vars, state, mon_vars, hw_vars, last_set>>

\* main: the effective user id is checked first; a daemon that is not root
\* logs the error and exits with status 1, root goes on to DaemonState::new.
MainCheckRoot(is_root) ==
  /\ pc[Main] = "euid"
  /\ pc' = [pc EXCEPT ![Main] = IF is_root THEN "start" ELSE "exited"]
  /\ state_created' = is_root
  /\ state' = NewDaemonState
  /\ UNCHANGED <<request, new_mode, actual_mode_to_set, cmd_write, response,
                 max_fan_write_interval, lock, mon_vars, hw_vars, last_set>>

\* main: "Apply initial fan mode (Auto) during startup".
MainStart(sensor) ==
  /\ pc[Main] = "start"
  /\ BeginSet(Main, <<>>, "Auto", sensor)

\* handle_client reads one request; handle_client_request matches ["set", mode_str]
\* with a mode that parses.
HandleSet(t, req, sensor) ==
  /\ Started /\ t \in Handlers /\ pc[t] = "idle"
  /\ LET parts == Parts[req] IN
     /\ Len(parts) = 2 /\ parts[1] = S_set
     /\ FanMode_from_str(parts[2]) # ParseErr
     /\ BeginSet(t, req, FanMode_from_str(parts[2]), sensor)

\* The handler answers without touching the state or a control point.
Answer(t, req, text) ==
  /\ pc' = [pc EXCEPT ![t] = "respond"]
  /\ request' = [request EXCEPT ![t] = req]
  /\ response' = [response EXCEPT ![t] = text]
  /\ cmd_write' = [cmd_write EXCEPT ![t] = NoWrite]
  /\ UNCHANGED <<new_mode, actual_mode_to_set, fixed_vars, state, mon_vars,
                 hw_vars, last_set>>

\* handle_client_request, ["status"].
HandleStatus(t, req) ==
  /\ Started /\ t \in Handlers /\ pc[t] = "idle"
  /\ Parts[req] = <<S_status>>
  /\ lock = "free"
  /\ Answer(t, req, OkResponse(StatusText(state)))

\* handle_client_request: a mode token that does not parse, or no arm matches.
HandleInvalid(t, req) ==
  /\ Started /\ t \in Handlers /\ pc[t] = "idle"
  /\ LET parts == Parts[req] IN
     \/ /\ Len(parts) = 2 /\ parts[1] = S_set
        /\ FanMode_from_str(parts[2]) = ParseErr
        /\ Answer(t, req, ErrResponse(S_InvalidFanMode))
     \/ /\ Len(parts) = 2 /\ parts[1] = S_set_performance
        /\ PerformanceMode_from_str(parts[2]) = ParseErr
        /\ Answer(t, req, ErrResponse(S_InvalidPerfMode))
     \/ /\ ~(Len(parts) = 2 /\ parts[1] \in {S_set, S_set_performance})
        /\ parts # <<S_status>>
        /\ Answer(t, req, ErrResponse(S_InvalidCommand))

\* handle_client_request, ["set_performance", mode_str], then
\* set_performance_mode's "Update state" block.
HandlePerf(t, req) ==
  /\ Started /\ t \in Handlers /\ pc[t] = "idle"
  /\ lock = "free"
  /\ LET parts == Parts[req] IN
     /\ Len(parts) = 2 /\ parts[1] = S_set_performance
     /\ PerformanceMode_from_str(parts[2]) # ParseErr
     /\ state' = PerfUpdate(state, PerformanceMode_from_str(parts[2]))
     /\ new_mode' = [new_mode EXCEPT ![t] = PerformanceMode_from_str(parts[2])]
  /\ pc' = [pc EXCEPT ![t] = "perf_write"]
  /\ request' = [request EXCEPT ![t] = req]
  /\ cmd_write' = [cmd_write EXCEPT ![t] = NoWrite]
  /\ UNCHANGED <<actual_mode_to_set, response, fixed_vars, mon_vars, hw_vars,
                 last_set>>

\* set_fan_mode: the "Update state" block.
SetUpdateStep(t) ==
  /\ pc[t] = "set_update" /\ lock = "free"
  /\ state' = SetUpdate(state, new_mode[t], actual_mode_to_set[t])
  /\ pc' = [pc EXCEPT ![t] = "set_write"]
  /\ last_set' = new_mode[t]
  /\ UNCHANGED <<request, new_mode, actual_mode_to_set, cmd_write, response,
                 fixed_vars, mon_vars, hw_vars>>

\* Mutant of Finish: the handler answers OK whatever the command returned.
Finish_AlwaysOk(t, ok, okText, errText) ==
  /\ pc' = [pc EXCEPT ![t] = IF t = Main THEN "applied" ELSE "respond"]
  /\ response' = [response EXCEPT ![t] = IF t = Main THEN <<>> ELSE OkResponse(okText)]

\* What the thread does with the result of its command: main logs it and goes
\* on to start the monitor and the server, a handler sends the response.
Finish(t, ok, okText, errText) ==
  /\ pc' = [pc EXCEPT ![t] = IF t = Main THEN "applied" ELSE "respond"]
  /\ response' = [response EXCEPT ![t] =
                    IF t = Main THEN <<>>
                    ELSE IF ok THEN OkResponse(okText) ELSE ErrResponse(errText)]

\* set_fan_mode: "Write to hardware".
SetWrite(t, outcome) ==
  /\ pc[t] = "set_write"
  /\ fan_file' = FanFileAfter(actual_mode_to_set[t], outcome)
  /\ cmd_write' = [cmd_write EXCEPT ![t] = FanWrite(actual_mode_to_set[t], outcome, "set")]
  /\ Finish(t, outcome = WriteOk,
            S_FanModeSetTo \o FanMode_Display(new_mode[t]),
            S_FailedFanWrite \o WriteErrText(outcome))
  /\ UNCHANGED <<request, new_mode, actual_mode_to_set, fixed_vars, state,
                 mon_vars, last_set>>

\* set_performance_mode: "Write to platform profile" (a fixed path, no glob).
PerfWrite(t, outcome) ==
  /\ pc[t] = "perf_write"
  /\ outcome # "NotFound"
  /\ cmd_write' = [cmd_write EXCEPT ![t] = PerfWriteRec(new_mode[t], outcome)]
  /\ Finish(t, outcome = WriteOk,
            S_PerfModeSetTo \o PerformanceMode_Display(new_mode[t]),
            S_FailedPerfWrite \o WriteErrText(outcome))
  /\ UNCHANGED <<request, new_mode, actual_mode_to_set, fixed_vars, state,
                 hw_vars, mon_vars, last_set>>

\* main: the result of the initial set_fan_mode is logged, then
\* start_temperature_monitor spawns the monitor thread, which begins by sleeping.
MainStartMonitor ==
  /\ pc[Main] = "applied"
  /\ pc' = [pc EXCEPT ![Main] = "bind"]
  /\ mpc' = "sleep"
  /\ UNCHANGED <<request, new_mode, actual_mode_to_set, cmd_write, response, fixed_vars,
                 state, current_temp, sleep_left, tick_write, should_handle_auto_mode,
                 hw_vars, last_set>>

\* main: start_unix_socket_server returned an error (the socket could not be
\* bound); it is logged and the process exits with status 1, the monitor
\* thread with it.
MainBindFails ==
  /\ pc[Main] = "bind"
  /\ pc' = [pc EXCEPT ![Main] = "exited"]
  /\ UNCHANGED <<request, new_mode, actual_mode_to_set, cmd_write, response, fixed_vars,
                 state, mon_vars, hw_vars, last_set>>

\* main: start_unix_socket_server bound the socket and accepts connections.
MainServe ==
  /\ pc[Main] = "bind"
  /\ pc' = [pc EXCEPT ![Main] = "done"]
  /\ new_mode' = [new_mode EXCEPT ![Main] = None]
  /\ actual_mode_to_set' = [actual_mode_to_set EXCEPT ![Main] = None]
  /\ cmd_write' = [cmd_write EXCEPT ![Main] = NoWrite]
  /\ UNCHANGED <<request, response, fixed_vars, state, mon_vars, hw_vars,
                 last_set>>

\* handle_client returns: the connection is closed and the thread ends.
Close(t) ==
  /\ pc[t] = "respond"
  /\ pc' = [pc EXCEPT ![t] = "idle"]
  /\ request' = [request EXCEPT ![t] = <<>>]
  /\ new_mode' = [new_mode EXCEPT ![t] = None]
  /\ actual_mode_to_set' = [actual_mode_to_set EXCEPT ![t] = None]
  /\ cmd_write' = [cmd_write EXCEPT ![t] = NoWrite]
  /\ response' = [response EXCEPT ![t] = <<>>]
  /\ UNCHANGED <<fixed_vars, state, mon_vars, hw_vars, last_set>>

\* ---------------------------------------------------------------- the monitor thread
\* The tick is over: back to thread::sleep at the top of the loop.
\* The locals of the loop body start each iteration as false.
GoSleep ==
  /\ mpc' = "sleep"
  /\ sleep_left' = temp_check_interval
  /\ current_temp' = NoneV
  /\ tick_write' = NoWrite
  /\ should_handle_auto_mode' = FALSE

\* The tick goes on at `next`, having issued the write w (or none so far).
GoOn(next, w) ==
  /\ mpc' = next
  /\ tick_write' = w
  /\ UNCHANGED <<sleep_left, current_temp, should_handle_auto_mode>>

\* The max-mode block is over at `at` (its write failed or its commit is done):
\* the auto-mode block follows if the check block asked for it, else the tick
\* is over.  Any other block ends the tick.
BlockEnds(at, w) ==
  IF at \in {"max_write", "max_commit"} /\ should_handle_auto_mode
  THEN GoOn("auto", w)
  ELSE GoSleep

\* One time unit passes while the monitor sleeps; a command and a tick take no
\* time on this scale.
TimePasses ==
  /\ Started /\ mpc = "sleep" /\ sleep_left > 0
  /\ \A t \in Handlers : pc[t] = "idle"
  /\ sleep_left' = sleep_left - 1
  /\ state' = Aged(state)
  /\ UNCHANGED <<mpc, current_temp, tick_write, should_handle_auto_mode, cmd_vars,
                 fixed_vars, fan_file, last_set>>

\* Mutant of MonitorSample: a failed read is taken as a cool sample and zeroes
\* the counters.
MonitorSample_FailureResets(sensor) ==
  /\ Started /\ mpc = "sleep" /\ sleep_left = 0 /\ lock = "free"
  /\ IF sensor = SensorErr
     THEN /\ GoSleep
          /\ state' = [state EXCEPT !.consecutive_high_temps = 0, !.consecutive_low_temps = 0]
     ELSE /\ mpc' = "check"
          /\ current_temp' = sensor
          /\ state' = StoreTemp(state, Val(sensor))
          /\ UNCHANGED <<sleep_left, tick_write, should_handle_auto_mode>>
  /\ UNCHANGED <<cmd_vars, fixed_vars, hw_vars, last_set>>

\* The sleep is over and read_temperature is called.  A failed read abandons the
\* tick (continue); a sample is stored in the state.
MonitorSample(sensor) ==
  /\ Started /\ mpc = "sleep" /\ sleep_left = 0 /\ lock = "free"
  /\ IF sensor = SensorErr
     THEN GoSleep /\ UNCHANGED state
     ELSE /\ mpc' = "check"
          /\ current_temp' = sensor
          /\ state' = StoreTemp(state, Val(sensor))
          /\ UNCHANGED <<sleep_left, tick_write, should_handle_auto_mode>>
  /\ UNCHANGED <<cmd_vars, fixed_vars, hw_vars, last_set>>

\* "Check what we need to do": both locals are set under one lock, then the
\* max-mode block runs if asked for, and after it the auto-mode block.
MonitorCheck ==
  /\ mpc = "check" /\ lock = "free"
  /\ IF ShouldHandleMaxMode(state) \/ ShouldHandleAutoMode(state)
     THEN /\ mpc' = IF ShouldHandleMaxMode(state) THEN "max_write" ELSE "auto"
          /\ should_handle_auto_mode' = ShouldHandleAutoMode(state)
          /\ tick_write' = NoWrite
          /\ UNCHANGED <<sleep_left, current_temp>>
     ELSE GoSleep
  /\ UNCHANGED <<state, cmd_vars, fixed_vars, hw_vars, last_set>>

\* Mutant of MonitorWrite: the commit follows whatever the write returned.
MonitorWrite_CommitsOnFailure(at, mode, why, outcome, commit) ==
  /\ mpc = at
  /\ fan_file' = FanFileAfter(mode, outcome)
  /\ GoOn(commit, FanWrite(mode, outcome, why))
  /\ UNCHANGED <<state, cmd_vars, fixed_vars, last_set>>

\* A fan write of the monitor, made with the mutex released: on success the
\* thread goes on to the commit, on failure the error is logged and the tick ends.
MonitorWrite(at, mode, why, outcome, commit) ==
  /\ mpc = at
  /\ fan_file' = FanFileAfter(mode, outcome)
  /\ IF outcome = WriteOk THEN GoOn(commit, FanWrite(mode, outcome, why))
     ELSE BlockEnds(at, FanWrite(mode, outcome, why))
  /\ UNCHANGED <<state, cmd_vars, fixed_vars, last_set>>

\* The commit after a successful write of the monitor.
MonitorCommit(at, s) ==
  /\ mpc = at /\ lock = "free"
  /\ state' = s
  /\ BlockEnds(at, tick_write)
  /\ UNCHANGED <<cmd_vars, fixed_vars, hw_vars, last_set>>

\* "Handle max mode timing": the periodic write while user_mode is Max.
MonitorMaxWrite(outcome) == MonitorWrite("max_write", "Max", "max_mode", outcome, "max_commit")

MonitorMaxCommit == MonitorCommit("max_commit", MaxCommit(state))

\* Mutant of GuardAfterAuto: the guard is not dropped before a write.
GuardAfterAuto_NoDrop(next) == IF next = "sleep" THEN "free" ELSE "monitor"

\* The holder of the mutex when the auto-mode block hands over to `next`:
\* state_guard is dropped before each write_fan_mode and at the end of the block.
GuardAfterAuto(next) == "free"

\* "Handle auto mode temperature monitoring", up to the release of the lock.
MonitorAuto ==
  /\ mpc = "auto" /\ lock = "free"
  /\ LET r == AutoCheck(state, Val(current_temp)) IN
     /\ state' = r.st
     /\ lock' = GuardAfterAuto(r.next)
     /\ IF r.next = "sleep" THEN GoSleep ELSE GoOn(r.next, tick_write)
  /\ UNCHANGED <<cmd_vars, max_fan_write_interval, state_created, hw_vars, last_set>>

\* Bios -> Max.
MonitorToMaxWrite(outcome) ==
  /\ outcome # WriteOk => state.consecutive_high_temps < MaxCount
  /\ MonitorWrite("to_max_write", "Max", "to_max", outcome, "to_max_commit")

MonitorToMaxCommit == MonitorCommit("to_max_commit", ToMaxCommit(state))

\* The periodic write while Auto holds the hardware in Max.
MonitorRewriteWrite(outcome) ==
  MonitorWrite("rewrite_write", "Max", "rewrite", outcome, "rewrite_commit")

MonitorRewriteCommit == MonitorCommit("rewrite_commit", RewriteCommit(state))

\* Max -> Bios.
MonitorToBiosWrite(outcome) ==
  /\ outcome # WriteOk => state.consecutive_low_temps < MaxCount
  /\ MonitorWrite("to_bios_write", "Bios", "to_bios", outcome, "to_bios_commit")

MonitorToBiosCommit == MonitorCommit("to_bios_commit", ToBiosCommit(state))

\* ---------------------------------------------------------------- specification
\* The history variables: what the samples and set commands so far amount to.
\* They are recorded when operations are processed one at a time, and a step
\* is recognised by what it changes.
IsSample == mpc = "sleep" /\ mpc' = "check"
IsSetUpdate == \E t \in CmdThreads : pc[t] = "set_update" /\ pc'[t] = "set_write"

\* A step that wrote the fan control point.
IsFanWriteOk ==
  \/ \E t \in CmdThreads : pc[t] = "set_write" /\ pc'[t] # "set_write"
                             /\ cmd_write'[t].kind = "fan" /\ cmd_write'[t].ok
  \/ mpc \in {"max_write", "to_max_write", "rewrite_write", "to_bios_write"} /\ mpc' # "sleep"

\* set_fan_mode is entered; a command thread is done with its command.
IsSetBegin == \E t \in CmdThreads : pc[t] # "set_update" /\ pc'[t] = "set_update"
\* set_performance_mode is entered (its update is part of the same step).
IsPerfBegin == \E t \in Handlers : pc[t] = "idle" /\ pc'[t] = "perf_write"
IsCommandEnd == \E t \in CmdThreads : pc[t] # pc'[t] /\ pc'[t] \in {"idle", "done"}

\* A step in which write_fan_mode returned an error, and the mode it was to write.
IsFanWriteFailed ==
  \/ \E t \in CmdThreads : pc[t] = "set_write" /\ pc'[t] # "set_write" /\ ~cmd_write'[t].ok
  \/ mpc \in {"max_write", "to_max_write", "rewrite_write", "to_bios_write"} /\ mpc' = "sleep"
FailedMode ==
  IF \E t \in CmdThreads : pc[t] = "set_write" /\ pc'[t] # "set_write"
  THEN actual_mode_to_set[CHOOSE t \in CmdThreads : pc[t] = "set_write" /\ pc'[t] # "set_write"]
  ELSE IF mpc = "to_bios_write" THEN "Bios" ELSE "Max"

HistNext ==
  /\ UNCHANGED <<det_vars, side_vars>>
  /\ run_high' = IF IsSetUpdate THEN 0
                 ELSE IF IsSample THEN RunHighAfter(state, Val(current_temp'))
                 ELSE run_high
  /\ run_low' = IF IsSetUpdate THEN 0
                ELSE IF IsSample THEN RunLowAfter(state, Val(current_temp'))
                ELSE run_low
  /\ run_low_nd' = IF IsSetUpdate THEN 0
                   ELSE IF IsSample THEN RunLowNdAfter(state, Val(current_temp'))
                   ELSE run_low_nd
  /\ from_zero' = IF IsSetUpdate THEN ZeroStart(state')
                  ELSE (from_zero \/ ZeroStart(state'))
  /\ cmd_before' =
       IF IsSetBegin \/ IsPerfBegin THEN state
       ELSE IF IsCommandEnd THEN NewDaemonState
       ELSE cmd_before
  /\ tick_before' =
       IF IsSample THEN <<state.consecutive_high_temps, state.consecutive_low_temps>>
       ELSE IF mpc' = "sleep" THEN <<0, 0>>
       ELSE tick_before
  /\ failed_write' =
       IF IsFanWriteFailed THEN FailedMode
       ELSE IF IsFanWriteOk \/ IsSetUpdate THEN None
       ELSE failed_write
  /\ since_max_write' =
       IF IsSetUpdate THEN NoneV
       ELSE IF fan_file' # fan_file \/ IsFanWriteOk
       THEN (IF fan_file' = FanValue("Max") THEN Some(0) ELSE NoneV)
       ELSE IF sleep_left' < sleep_left /\ since_max_write # NoneV
            THEN Some(Min(Val(since_max_write) + 1, AgeCap + 1))
            ELSE since_max_write

MonitorIdle == mpc = "sleep"
HandlersIdle == \A t \in Handlers : pc[t] = "idle"

\* Every interleaving of the threads' steps; the history variables are not
\* recorded.
Next ==
  \/ (\E sensor \in SensorOutcomes : MainStart(sensor)) /\ UNCHANGED aux_vars
  \/ (\E is_root \in BOOLEAN : MainCheckRoot(is_root)) /\ UNCHANGED aux_vars
  \/ MainStartMonitor /\ UNCHANGED aux_vars
  \/ MainBindFails /\ UNCHANGED aux_vars
  \/ MainServe /\ UNCHANGED aux_vars
  \/ (\E t \in CmdThreads : SetUpdateStep(t)) /\ UNCHANGED aux_vars
  \/ (\E t \in CmdThreads, outcome \in WriteOutcomes : SetWrite(t, outcome)) /\ UNCHANGED aux_vars
  \/ (\E t \in Handlers, req \in Requests, sensor \in SensorOutcomes :
        HandleSet(t, req, sensor)) /\ UNCHANGED aux_vars
  \/ (\E t \in Handlers, req \in Requests : HandlePerf(t, req)) /\ UNCHANGED aux_vars
  \/ (\E t \in Handlers, req \in Requests : HandleStatus(t, req)) /\ UNCHANGED aux_vars
  \/ (\E t \in Handlers, req \in Requests : HandleInvalid(t, req)) /\ UNCHANGED aux_vars
  \/ (\E t \in Handlers, outcome \in WriteOutcomes : PerfWrite(t, outcome)) /\ UNCHANGED aux_vars
  \/ (\E t \in Handlers : Close(t)) /\ UNCHANGED aux_vars
  \/ (\E sensor \in SensorOutcomes : MonitorSample(sensor)) /\ UNCHANGED aux_vars
  \/ MonitorCheck /\ UNCHANGED aux_vars
  \/ (\E outcome \in WriteOutcomes : MonitorMaxWrite(outcome)) /\ UNCHANGED aux_vars
  \/ MonitorMaxCommit /\ UNCHANGED aux_vars
  \/ MonitorAuto /\ UNCHANGED aux_vars
  \/ (\E outcome \in WriteOutcomes : MonitorToMaxWrite(outcome)) /\ UNCHANGED aux_vars
  \/ MonitorToMaxCommit /\ UNCHANGED aux_vars
  \/ (\E outcome \in WriteOutcomes : MonitorRewriteWrite(outcome)) /\ UNCHANGED aux_vars
  \/ MonitorRewriteCommit /\ UNCHANGED aux_vars
  \/ (\E outcome \in WriteOutcomes : MonitorToBiosWrite(outcome)) /\ UNCHANGED aux_vars
  \/ MonitorToBiosCommit /\ UNCHANGED aux_vars
  \/ TimePasses /\ UNCHANGED aux_vars

Spec == Init /\ [][Next]_vars

\* Operations processed one at a time, with the history recorded: a request is
\* read only while the monitor sleeps, and a tick starts only while no command
\* is in progress.
SeqNext ==
  \/ (\E sensor \in SensorOutcomes : MainStart(sensor)) /\ HistNext
  \/ (\E is_root \in BOOLEAN : MainCheckRoot(is_root)) /\ HistNext
  \/ MainStartMonitor /\ HistNext
  \/ MainBindFails /\ HistNext
  \/ MainServe /\ HistNext
  \/ (\E t \in CmdThreads : SetUpdateStep(t)) /\ HistNext
  \/ (\E t \in CmdThreads, outcome \in WriteOutcomes : SetWrite(t, outcome)) /\ HistNext
  \/ MonitorIdle /\ (\E t \in Handlers, req \in Requests, sensor \in SensorOutcomes :
        HandleSet(t, req, sensor)) /\ HistNext
  \/ MonitorIdle /\ (\E t \in Handlers, req \in Requests : HandlePerf(t, req)) /\ HistNext
  \/ MonitorIdle /\ (\E t \in Handlers, req \in Requests : HandleStatus(t, req)) /\ HistNext
  \/ MonitorIdle /\ (\E t \in Handlers, req \in Requests : HandleInvalid(t, req)) /\ HistNext
  \/ (\E t \in Handlers, outcome \in WriteOutcomes : PerfWrite(t, outcome)) /\ HistNext
  \/ (\E t \in Handlers : Close(t)) /\ HistNext
  \/ HandlersIdle /\ (\E sensor \in SensorOutcomes : MonitorSample(sensor)) /\ HistNext
  \/ MonitorCheck /\ HistNext
  \/ (\E outcome \in WriteOutcomes : MonitorMaxWrite(outcome)) /\ HistNext
  \/ MonitorMaxCommit /\ HistNext
  \/ MonitorAuto /\ HistNext
  \/ (\E outcome \in WriteOutcomes : MonitorToMaxWrite(outcome)) /\ HistNext
  \/ MonitorToMaxCommit /\ HistNext
  \/ (\E outcome \in WriteOutcomes : MonitorRewriteWrite(outcome)) /\ HistNext
  \/ MonitorRewriteCommit /\ HistNext
  \/ (\E outcome \in WriteOutcomes : MonitorToBiosWrite(outcome)) /\ HistNext
  \/ MonitorToBiosCommit /\ HistNext
  \/ TimePasses /\ HistNext

SeqSpec == Init /\ [][SeqNext]_vars

\* ---------------------------------------------------------------- replay of an input sequence
\* Two runs of the daemon are fed the same set commands, sensor samples and
\* write outcomes, one operation at a time; only the times of the ticks differ.

\* A whole set command on state s (the write outcome does not reach the state).
RunSet(s, mode, sensor) == SetUpdate(s, mode, ResolveActualMode(mode, sensor))

\* A whole monitor tick on state s: the sample is stored, then at most one of
\* the write-and-commit paths runs.
RunTick(s, sensor, outcome) ==
  IF sensor = SensorErr THEN s
  ELSE LET s1 == StoreTemp(s, Val(sensor))
           ok == outcome = WriteOk
       IN IF ShouldHandleMaxMode(s1) THEN (IF ok THEN MaxCommit(s1) ELSE s1)
          ELSE IF ShouldHandleAutoMode(s1)
               THEN LET r == AutoCheck(s1, Val(sensor)) IN
                    CASE r.next = "sleep" -> r.st
                      [] r.next = "to_max_write" -> IF ok THEN ToMaxCommit(r.st) ELSE r.st
                      [] r.next = "rewrite_write" -> IF ok THEN RewriteCommit(r.st) ELSE r.st
                      [] r.next = "to_bios_write" -> IF ok THEN ToBiosCommit(r.st) ELSE r.st
               ELSE s1

\* thread::sleep lasts at least temp_check_interval; a tick may come one unit late.
TickGaps == {temp_check_interval, temp_check_interval + 1}

AgedBy(s, d) ==
  IF s.last_fan_write = NoneV THEN s
  ELSE [s EXCEPT !.last_fan_write = Some(Min(Val(s.last_fan_write) + d, AgeCap))]

CountersInRange(s) ==
  s.consecutive_high_temps <= MaxCount /\ s.consecutive_low_temps <= MaxCount

\* Both runs start with main applying the initial Auto mode.
DetStart(sensor) ==
  /\ det_a = NewDaemonState
  /\ det_a' = RunSet(NewDaemonState, "Auto", sensor)
  /\ det_b' = det_a'

DetSet(mode, sensor) ==
  /\ det_a # NewDaemonState
  /\ det_a' = RunSet(det_a, mode, sensor)
  /\ det_b' = RunSet(det_b, mode, sensor)

DetTick(sensor, outcome, gap_a, gap_b) ==
  /\ det_a # NewDaemonState
  /\ det_a' = RunTick(AgedBy(det_a, gap_a), sensor, outcome)
  /\ det_b' = RunTick(AgedBy(det_b, gap_b), sensor, outcome)
  /\ CountersInRange(det_a') /\ CountersInRange(det_b')

main_vars ==
  <<fixed_vars, state, fan_file, mon_vars, cmd_vars, last_set, hist_vars>>

DetNext ==
  \/ (\E sensor \in SensorOutcomes : DetStart(sensor)) /\ UNCHANGED <<main_vars, side_vars>>
  \/ (\E mode \in FanMode, sensor \in SensorOutcomes : DetSet(mode, sensor))
        /\ UNCHANGED <<main_vars, side_vars>>
  \/ (\E sensor \in SensorOutcomes, outcome \in WriteOutcomes, gap_a, gap_b \in TickGaps :
        DetTick(sensor, outcome, gap_a, gap_b)) /\ UNCHANGED <<main_vars, side_vars>>

DetSpec == Init /\ [][DetNext]_vars

\* ---------------------------------------------------------------- the command server alone
\* The socket server with every spelling of a request, one connection at a time,
\* while the monitor sleeps.
ParseNext ==
  \/ (\E sensor \in SensorOutcomes : MainStart(sensor)) /\ UNCHANGED aux_vars
  \/ (\E is_root \in BOOLEAN : MainCheckRoot(is_root)) /\ UNCHANGED aux_vars
  \/ MainStartMonitor /\ UNCHANGED aux_vars
  \/ MainBindFails /\ UNCHANGED aux_vars
  \/ MainServe /\ UNCHANGED aux_vars
  \/ (\E t \in CmdThreads : SetUpdateStep(t)) /\ UNCHANGED aux_vars
  \/ (\E t \in CmdThreads, outcome \in WriteOutcomes : SetWrite(t, outcome)) /\ UNCHANGED aux_vars
  \/ (\E t \in Handlers, req \in AllRequests, sensor \in SensorOutcomes :
        HandleSet(t, req, sensor)) /\ UNCHANGED aux_vars
  \/ (\E t \in Handlers, req \in AllRequests : HandlePerf(t, req)) /\ UNCHANGED aux_vars
  \/ (\E t \in Handlers, req \in AllRequests : HandleStatus(t, req)) /\ UNCHANGED aux_vars
  \/ (\E t \in Handlers, req \in AllRequests : HandleInvalid(t, req)) /\ UNCHANGED aux_vars
  \/ (\E t \in Handlers, outcome \in WriteOutcomes : PerfWrite(t, outcome)) /\ UNCHANGED aux_vars
  \/ (\E t \in Handlers : Close(t)) /\ UNCHANGED aux_vars

ParseSpec == Init /\ [][ParseNext]_vars

\* ---------------------------------------------------------------- the monitor alone, cooling down
\* The daemon with no client: after startup only the monitor thread runs.  Every
\* sensor read succeeds and every write succeeds; while Auto holds the hardware
\* in Max the samples are at or below temp_threshold_low.  The monitor thread
\* loops for ever and its sleep ends, so a step that stays possible is taken.
CoolSample(sensor) ==
  /\ sensor # SensorErr
  /\ (state.user_mode = "Auto" /\ state.actual_mode = "Max")
       => Val(sensor) <= temp_threshold_low * 1000
  /\ MonitorSample(sensor)

CoolingNext ==
  \/ (\E sensor \in SensorOutcomes : MainStart(sensor)) /\ UNCHANGED aux_vars
  \/ (\E is_root \in BOOLEAN : MainCheckRoot(is_root)) /\ UNCHANGED aux_vars
  \/ MainStartMonitor /\ UNCHANGED aux_vars
  \/ MainBindFails /\ UNCHANGED aux_vars
  \/ MainServe /\ UNCHANGED aux_vars
  \/ SetUpdateStep(Main) /\ UNCHANGED aux_vars
  \/ SetWrite(Main, WriteOk) /\ UNCHANGED aux_vars
  \/ (\E sensor \in SensorOutcomes : CoolSample(sensor)) /\ UNCHANGED aux_vars
  \/ MonitorCheck /\ UNCHANGED aux_vars
  \/ MonitorAuto /\ UNCHANGED aux_vars
  \/ MonitorToMaxWrite(WriteOk) /\ UNCHANGED aux_vars
  \/ MonitorToMaxCommit /\ UNCHANGED aux_vars
  \/ MonitorRewriteWrite(WriteOk) /\ UNCHANGED aux_vars
  \/ MonitorRewriteCommit /\ UNCHANGED aux_vars
  \/ MonitorToBiosWrite(WriteOk) /\ UNCHANGED aux_vars
  \/ MonitorToBiosCommit /\ UNCHANGED aux_vars
  \/ TimePasses /\ UNCHANGED aux_vars

CoolingSpec == Init /\ [][CoolingNext]_vars /\ WF_vars(CoolingNext)

\* ---------------------------------------------------------------- the client
\* DaemonClient, the other end of the socket.
C_Ok == <<"O","K",":">>
C_Error == <<"E","R","R","O","R",":">>
C_PerformancePerformance ==
  <<"P","e","r","f","o","r","m","a","n","c","e",":"," ">> \o S_performance

\* str::strip_prefix(..).unwrap_or(..): the text without the prefix it starts with.
strip_prefix(s, p) == IF StartsWith(s, p) THEN SubSeq(s, Len(p) + 1, Len(s)) ELSE s

\* Mutant of ClientFanMode: the mode names are looked for without their label.
ClientFanMode_NoLabel(status_data) ==
  IF Contains(status_data, S_Max) THEN "Max"
  ELSE IF Contains(status_data, S_Auto) THEN "Auto"
  ELSE "Bios"

\* get_current_state: the fan mode found in the status text.
ClientFanMode(status_data) ==
  IF Contains(status_data, S_ModeLabel \o S_Max) THEN "Max"
  ELSE IF Contains(status_data, S_ModeLabel \o S_Auto) THEN "Auto"
  ELSE "Bios"

\* get_current_state: the performance mode found in the status text.
ClientPerformanceMode(status_data) ==
  IF Contains(status_data, C_PerformancePerformance) THEN "Performance" ELSE "Balanced"

\* How a client call ends for a response: Ok, or the kind of its io::Error.
ClientResult(resp) ==
  IF StartsWith(resp, C_Ok) THEN "Ok"
  ELSE IF StartsWith(resp, C_Error) THEN "Other"
  ELSE "InvalidData"

\* DaemonClient::get_current_state on the response to its "status" command.
get_current_state(resp) ==
  IF ClientResult(resp) = "Ok"
  THEN LET status_data == trim(strip_prefix(resp, C_Ok)) IN
       [result |-> "Ok", fan_mode |-> ClientFanMode(status_data),
        performance_mode |-> ClientPerformanceMode(status_data), temperature |-> NoneV]
  ELSE [result |-> ClientResult(resp), fan_mode |-> None, performance_mode |-> None,
        temperature |-> NoneV]

\* ---------------------------------------------------------------- the sensor reader alone
\* The sensor files come, go and change under the reader; a call of
\* read_temperature reads them as they are at that moment.
SensorAppears(file) ==
  /\ Len(temp_inputs) < MaxFiles
  /\ temp_inputs' = Append(temp_inputs, file)
  /\ read_current' = FALSE
  /\ UNCHANGED temp_read

SensorChanges(i, file) ==
  /\ i \in 1..Len(temp_inputs)
  /\ temp_inputs[i] # file
  /\ temp_inputs' = [temp_inputs EXCEPT ![i] = file]
  /\ read_current' = FALSE
  /\ UNCHANGED temp_read

SensorDisappears ==
  /\ temp_inputs # <<>>
  /\ temp_inputs' = SubSeq(temp_inputs, 1, Len(temp_inputs) - 1)
  /\ read_current' = FALSE
  /\ UNCHANGED temp_read

ReadTemperature ==
  /\ temp_read' = read_temperature(temp_inputs)
  /\ read_current' = TRUE
  /\ UNCHANGED temp_inputs

ReadNext ==
  \/ (\E file \in SensorFiles : SensorAppears(file)) /\ UNCHANGED <<main_vars, det_vars, fans_vars>>
  \/ (\E i \in 1..MaxFiles, file \in SensorFiles : SensorChanges(i, file))
        /\ UNCHANGED <<main_vars, det_vars, fans_vars>>
  \/ SensorDisappears /\ UNCHANGED <<main_vars, det_vars, fans_vars>>
  \/ ReadTemperature /\ UNCHANGED <<main_vars, det_vars, fans_vars>>

ReadSpec == Init /\ [][ReadNext]_vars

\* ---------------------------------------------------------------- fans.rs
\* The in-process fan control of the tray application.
\* set_fan_mode: the value handed to the helper.
HelperValue(mode) == IF mode = "Max" THEN "0" ELSE "2"

\* What read_temperature returns to fans.rs: at the threshold, above it, or an error.
FansSensorOutcomes == {Some(TEMP_THRESHOLD), Some(TEMP_THRESHOLD + 1), NoneV}

\* set_fan_status: the hardware mode for a user mode.
StatusActualMode(mode, sensor) ==
  CASE mode = "Max" -> "Max"
    [] mode = "Auto" ->
         IF sensor # NoneV /\ Val(sensor) > TEMP_THRESHOLD THEN "Max" ELSE "Bios"
    [] mode = "Bios" -> "Bios"

\* set_fan_status: the update made under the lock.
StatusUpdate(s, mode, actual) ==
  [s EXCEPT !.user_mode = mode, !.actual_mode = actual, !.consecutive_high_temps = 0,
            !.last_fan_write = IF mode = "Max" THEN Some(0) ELSE NoneV,
            !.temp_monitoring_active = (mode = "Auto")]

\* TEMP_CHECK_INTERVAL has passed on the Instant in last_fan_write; elapsed
\* times are only compared with MAX_FAN_WRITE_INTERVAL and are kept up to it.
AfterSleep(s) ==
  IF s.last_fan_write = NoneV THEN s
  ELSE [s EXCEPT !.last_fan_write =
          Some(Min(Val(s.last_fan_write) + TEMP_CHECK_INTERVAL, MAX_FAN_WRITE_INTERVAL))]

\* The control thread's "Read current state" block.
ControlShouldHandleMax(s) ==
  s.user_mode = "Max"
    /\ (s.last_fan_write = NoneV \/ Val(s.last_fan_write) >= MAX_FAN_WRITE_INTERVAL)

ControlShouldHandleAuto(s) == s.user_mode = "Auto" /\ s.temp_monitoring_active

\* The control thread's auto-mode block under the lock, for a sample: the state
\* it leaves and the write it goes on to, if any.
AutoModeStep(s, temp) ==
  IF temp > TEMP_THRESHOLD
  THEN IF s.consecutive_high_temps + 1 >= CONSECUTIVE_HIGH_TEMP_LIMIT
       THEN [st |-> [s EXCEPT !.actual_mode = "Max", !.consecutive_high_temps = 0,
                              !.last_fan_write = Some(0)],
             next |-> "to_max_write"]
       ELSE [st |-> [s EXCEPT !.consecutive_high_temps = @ + 1], next |-> "sleep"]
  ELSE IF s.consecutive_high_temps > 0
       THEN [st |-> [s EXCEPT !.actual_mode = "Bios", !.consecutive_high_temps = 0],
             next |-> "to_bios_write"]
       ELSE [st |-> [s EXCEPT !.consecutive_high_temps = 0], next |-> "sleep"]

\* set_fan_status up to the end of its locked block.
SetFanStatus(mode, sensor) ==
  /\ status_write = None
  /\ app_state' = StatusUpdate(app_state, mode, StatusActualMode(mode, sensor))
  /\ status_write' = StatusActualMode(mode, sensor)
  /\ forced_max' = FALSE
  /\ UNCHANGED <<fan_value, fct_pc, fct_temp>>

\* set_fan_status: the call of set_fan_mode; ok is whether the helper succeeded.
SetFanStatusWrite(ok) ==
  /\ status_write # None
  /\ fan_value' = IF ok THEN HelperValue(status_write) ELSE fan_value
  /\ status_write' = None
  /\ UNCHANGED <<app_state, fct_pc, fct_temp, forced_max>>

\* The control thread wakes and reads the state; both flags test the one local
\* user_mode, so at most one block runs.
ControlCheck ==
  /\ fct_pc = "sleep"
  /\ app_state' = AfterSleep(app_state)
  /\ fct_pc' = IF ControlShouldHandleMax(AfterSleep(app_state)) THEN "max_write"
               ELSE IF ControlShouldHandleAuto(AfterSleep(app_state)) THEN "auto"
               ELSE "sleep"
  /\ UNCHANGED <<fan_value, fct_temp, status_write, forced_max>>

\* "Handle max mode timing".
ControlMaxWrite(ok) ==
  /\ fct_pc = "max_write"
  /\ fan_value' = IF ok THEN HelperValue("Max") ELSE fan_value
  /\ fct_pc' = IF ok THEN "max_commit" ELSE "sleep"
  /\ UNCHANGED <<app_state, fct_temp, status_write, forced_max>>

ControlMaxCommit ==
  /\ fct_pc = "max_commit"
  /\ app_state' = [app_state EXCEPT !.last_fan_write = Some(0), !.actual_mode = "Max"]
  /\ fct_pc' = "sleep"
  /\ UNCHANGED <<fan_value, fct_temp, status_write, forced_max>>

\* "Handle auto mode temperature monitoring": the sensors are read, then the
\* state is updated under the lock, before any write.
ControlAuto(sensor) ==
  /\ fct_pc = "auto"
  /\ fct_temp' = sensor
  /\ IF sensor = NoneV
     THEN fct_pc' = "sleep" /\ UNCHANGED <<app_state, forced_max>>
     ELSE LET r == AutoModeStep(app_state, Val(sensor)) IN
          /\ app_state' = r.st
          /\ fct_pc' = r.next
          /\ forced_max' = IF r.next = "to_max_write" THEN TRUE
                           ELSE IF r.next = "to_bios_write" THEN FALSE
                           ELSE forced_max
  /\ UNCHANGED <<fan_value, status_write>>

ControlToMaxWrite(ok) ==
  /\ fct_pc = "to_max_write"
  /\ fan_value' = IF ok THEN HelperValue("Max") ELSE fan_value
  /\ fct_pc' = "sleep"
  /\ UNCHANGED <<app_state, fct_temp, status_write, forced_max>>

ControlToBiosWrite(ok) ==
  /\ fct_pc = "to_bios_write"
  /\ fan_value' = IF ok THEN HelperValue("Bios") ELSE fan_value
  /\ fct_pc' = "sleep"
  /\ UNCHANGED <<app_state, fct_temp, status_write, forced_max>>

FansNext ==
  \/ (\E mode \in FanMode, sensor \in FansSensorOutcomes : SetFanStatus(mode, sensor))
        /\ UNCHANGED <<main_vars, det_vars, read_vars>>
  \/ (\E ok \in BOOLEAN : SetFanStatusWrite(ok)) /\ UNCHANGED <<main_vars, det_vars, read_vars>>
  \/ ControlCheck /\ UNCHANGED <<main_vars, det_vars, read_vars>>
  \/ (\E ok \in BOOLEAN : ControlMaxWrite(ok)) /\ UNCHANGED <<main_vars, det_vars, read_vars>>
  \/ ControlMaxCommit /\ UNCHANGED <<main_vars, det_vars, read_vars>>
  \/ (\E sensor \in FansSensorOutcomes : ControlAuto(sensor))
        /\ UNCHANGED <<main_vars, det_vars, read_vars>>
  \/ (\E ok \in BOOLEAN : ControlToMaxWrite(ok)) /\ UNCHANGED <<main_vars, det_vars, read_vars>>
  \/ (\E ok \in BOOLEAN : ControlToBiosWrite(ok)) /\ UNCHANGED <<main_vars, det_vars, read_vars>>

FansSpec == Init /\ [][FansNext]_vars

TypeOK ==
  /\ state.user_mode \in FanMode
  /\ state.actual_mode \in HardwareFanMode
  /\ state.performance_mode \in PerformanceMode
  /\ state.consecutive_high_temps \in 0..MaxCount
  /\ state.consecutive_low_temps \in 0..MaxCount
  /\ state.last_fan_write \in {NoneV} \cup {Some(a) : a \in 0..AgeCap}
  /\ state.current_temp \in {NoneV} \cup {Some(t) : t \in Temps}
  /\ fan_file \in {"0", "2"}
  /\ state_created \in BOOLEAN
  /\ lock \in {"free", "monitor"}

\* ---------------------------------------------------------------- claims
high_milli == temp_threshold_high * 1000
low_milli == temp_threshold_low * 1000

\* The monitor is in a tick whose sample lies strictly between the thresholds.
Between(t) == t # NoneV /\ Val(t) > low_milli /\ Val(t) < high_milli

\* A step of the monitor thread that changes the recorded hardware mode.
MonitorSwitch(from, to) ==
  pc' = pc /\ state.actual_mode = from /\ state'.actual_mode = to

\* The monitor leaves its auto-mode block.
AutoBlockStep == mpc = "auto" /\ mpc' # "auto"

\* C1: in Auto mode with no set command in progress, a tick whose sample lies
\* strictly between temp_threshold_low and temp_threshold_high changes no
\* hardware mode and issues no transition write.
C1_NoChatter ==
  [][(mpc # "sleep" /\ Between(current_temp) /\ state.user_mode = "Auto")
       => /\ state'.actual_mode = state.actual_mode
          /\ mpc' \notin {"to_max_write", "to_bios_write"}
          /\ (fan_file' # fan_file => mpc = "rewrite_write")]_vars

C1_Witness ==
  /\ mpc = "auto" /\ Between(current_temp)
  /\ state.user_mode = "Auto" /\ state.actual_mode = "Max"
  /\ ~ShouldRewriteMax(state)
  /\ state.consecutive_low_temps = consecutive_low_temp_limit - 1

\* C2: the monitor issues the Bios -> Max write, and switches the recorded mode
\* from Bios to Max, only when the most recent consecutive_high_temp_limit
\* successful samples were all strictly above temp_threshold_high and taken in
\* Auto/Bios after the latest set command.
C2_MaxOnlyAfterHighRun ==
  [][/\ (mpc' = "to_max_write" => run_high' >= consecutive_high_temp_limit)
     /\ (MonitorSwitch("Bios", "Max") => run_high >= consecutive_high_temp_limit)]_vars

C2_Witness ==
  /\ mpc = "to_max_commit"
  /\ state.actual_mode = "Bios"
  /\ state.consecutive_high_temps > consecutive_high_temp_limit

\* C3: the monitor issues the Max -> Bios write, and switches the recorded mode
\* from Max to Bios, only when the most recent consecutive_low_temp_limit
\* successful samples were all at or below temp_threshold_low and taken in
\* Auto/Max after the latest set command.
C3_BiosOnlyAfterLowRun ==
  [][/\ (mpc' = "to_bios_write" => run_low' >= consecutive_low_temp_limit)
     /\ (MonitorSwitch("Max", "Bios") => run_low >= consecutive_low_temp_limit)]_vars

\* C4 as stated: from Auto/Bios with both counters zero, the tick of the
\* consecutive_high_temp_limit-th consecutive high sample issues the Max write
\* and that of the consecutive_low_temp_limit-th consecutive low sample in
\* Auto/Max issues the Bios write.
C4_Original ==
  [][(AutoBlockStep /\ state.user_mode = "Auto" /\ from_zero)
       => /\ (state.actual_mode = "Bios" /\ run_high >= consecutive_high_temp_limit)
               => mpc' = "to_max_write"
          /\ (state.actual_mode = "Max" /\ run_low >= consecutive_low_temp_limit)
               => mpc' = "to_bios_write"]_vars

\* C4, amended: from Auto/Bios with both counters zero and no set command
\* since, the Max write is issued exactly at the tick of the
\* consecutive_high_temp_limit-th consecutive high sample; the Bios write is
\* issued exactly at the tick of the consecutive_low_temp_limit-th consecutive
\* low sample among the ticks on which no re-assertion is due; a tick on which
\* it is due only re-writes Max; and a write that succeeds is committed in the
\* same tick.
C4_Amended ==
  [][/\ (AutoBlockStep /\ state.user_mode = "Auto" /\ from_zero)
          => /\ state.actual_mode = "Bios"
                  => (mpc' = "to_max_write" <=> run_high >= consecutive_high_temp_limit)
             /\ (state.actual_mode = "Max" /\ ~ShouldRewriteMax(state))
                  => (mpc' = "to_bios_write" <=> run_low_nd >= consecutive_low_temp_limit)
             /\ (state.actual_mode = "Max" /\ ShouldRewriteMax(state))
                  => mpc' = "rewrite_write"
     /\ (mpc = "to_max_write" /\ mpc' # "sleep")
          => (mpc' = "to_max_commit" /\ fan_file' = "0")
     /\ (mpc = "to_bios_write" /\ mpc' # "sleep")
          => (mpc' = "to_bios_commit" /\ fan_file' = "2")
     /\ mpc = "to_max_commit" => (state'.actual_mode = "Max" /\ mpc' = "sleep")
     /\ mpc = "to_bios_commit" => (state'.actual_mode = "Bios" /\ mpc' = "sleep")]_vars

C4_Witness ==
  /\ mpc = "to_bios_commit" /\ from_zero
  /\ max_fan_write_interval # NoneV
  /\ state.user_mode = "Auto" /\ state.actual_mode = "Max"
  /\ run_low_nd >= consecutive_low_temp_limit

\* C5: in Auto mode a sample that does not meet the running condition resets
\* the counter and switches nothing: in Bios a sample not above
\* temp_threshold_high zeroes consecutive_high_temps, in Max with no
\* re-assertion due a sample above temp_threshold_low zeroes
\* consecutive_low_temps; the mode is kept, the tick ends, nothing is written.
C5_MissResetsCounter ==
  [][(AutoBlockStep /\ state.user_mode = "Auto")
       => /\ (state.actual_mode = "Bios" /\ Val(current_temp) <= high_milli)
               => /\ state'.consecutive_high_temps = 0
                  /\ state'.actual_mode = "Bios"
                  /\ mpc' = "sleep" /\ fan_file' = fan_file
          /\ (state.actual_mode = "Max" /\ ~ShouldRewriteMax(state)
                /\ Val(current_temp) > low_milli)
               => /\ state'.consecutive_low_temps = 0
                  /\ state'.actual_mode = "Max"
                  /\ mpc' = "sleep" /\ fan_file' = fan_file]_vars

C5_Witness ==
  /\ mpc = "auto" /\ state.user_mode = "Auto" /\ state.actual_mode = "Bios"
  /\ current_temp = Some(high_milli)
  /\ state.consecutive_high_temps = consecutive_high_temp_limit - 1

\* C6: while user_mode is Max and an interval I is configured, the time since
\* the last successful write of Max never exceeds I.
C6_ReassertedWithinInterval ==
  (state.user_mode = "Max" /\ max_fan_write_interval # NoneV /\ since_max_write # NoneV)
    => Val(since_max_write) <= Val(max_fan_write_interval)

\* C7: with no interval configured the monitor never makes a periodic write;
\* the only Max write it issues is that of the Bios -> Max transition.
C7_NoRewriteUnconfigured ==
  max_fan_write_interval = NoneV
    => /\ mpc \notin {"max_write", "max_commit", "rewrite_write", "rewrite_commit"}
       /\ (tick_write # NoWrite /\ tick_write.mode = "Max") => tick_write.why = "to_max"

C7_Witness ==
  /\ max_fan_write_interval = NoneV
  /\ mpc = "check"
  /\ state.user_mode = "Max" /\ state.last_fan_write = Some(AgeCap)

\* C8: the state update of every set command leaves both hysteresis counters
\* zero.
C8_SetZeroesCounters ==
  [][IsSetUpdate
       => (state'.consecutive_high_temps = 0 /\ state'.consecutive_low_temps = 0)]_vars

\* C9 as stated: two runs fed the same set commands, samples and write
\* outcomes record the same hardware mode, whatever the times of their ticks.
C9_Original == det_a.actual_mode = det_b.actual_mode

\* C9, amended: they do when no re-assertion interval is configured.
C9_Amended == max_fan_write_interval = NoneV => det_a.actual_mode = det_b.actual_mode

C9_Witness ==
  /\ max_fan_write_interval = NoneV
  /\ det_a.user_mode = "Auto" /\ det_a.actual_mode = "Max"
  /\ det_a.last_fan_write # NoneV
  /\ det_a.last_fan_write # det_b.last_fan_write
  /\ det_a.consecutive_low_temps = consecutive_low_temp_limit - 1

\* C10: the response to a status request is OK and reports the mode of the
\* latest set command as the user mode.
C10_StatusReportsLastSet ==
  \A t \in Handlers :
    (pc[t] = "respond" /\ request[t] = R_status /\ last_set # None)
      => /\ StartsWith(response[t], S_OkPrefix)
         /\ Contains(response[t], S_ModeLabel \o FanMode_Display(last_set))
         /\ \A m \in FanMode \ {last_set} :
              ~Contains(response[t], S_ModeLabel \o FanMode_Display(m))

C10_Witness ==
  \E t \in Handlers :
    /\ pc[t] = "respond" /\ request[t] = R_status
    /\ last_set = "Max" /\ state.actual_mode = "Max"
    /\ Contains(response[t], S_ModeLabel \o S_Max)

\* The requests the protocol accepts: exactly [set, m], [set_performance, p] or
\* [status] after splitting on whitespace, m and p compared without case.
Accepted(req) ==
  LET p == split_whitespace(req) IN
    \/ Len(p) = 2 /\ p[1] = S_set /\ to_lowercase(p[2]) \in {S_max, S_auto, S_bios}
    \/ Len(p) = 2 /\ p[1] = S_set_performance
         /\ to_lowercase(p[2]) \in {S_balanced, S_performance}
    \/ p = <<S_status>>

\* C11: a request is rejected exactly when it is not of an accepted form; a
\* rejected request is answered with an ERROR: response, writes no control
\* point and leaves the whole state, hence the status text, unchanged; an
\* accepted one goes on to its command or is answered OK with the status.
C11_RejectsMalformed ==
  [][\A t \in Handlers :
       (pc[t] = "idle" /\ pc'[t] # "idle")
         => IF Accepted(request'[t])
            THEN \/ pc'[t] \in {"set_update", "perf_write"}
                 \/ pc'[t] = "respond" /\ StartsWith(response'[t], S_OkPrefix)
            ELSE /\ pc'[t] = "respond"
                 /\ StartsWith(response'[t], S_ErrorPrefix)
                 /\ state' = state
                 /\ StatusText(state') = StatusText(state)
                 /\ fan_file' = fan_file
                 /\ cmd_write'[t] = NoWrite]_vars

C11_Witness ==
  \E t \in Handlers :
    /\ pc[t] = "respond" /\ request[t] = R_set_max_now
    /\ StartsWith(response[t], S_ErrorPrefix)
    /\ state.user_mode = "Max" /\ state.performance_mode = "Balanced"

\* C12: once main has applied the initial mode, temp_monitoring_active is true
\* exactly when user_mode is Auto.
C12_MonitoringIffAuto ==
  (state_created /\ pc[Main] \notin {"start", "set_update"})
    => (state.temp_monitoring_active <=> state.user_mode = "Auto")

C12_Witness ==
  /\ Started /\ mpc = "check"
  /\ state.user_mode = "Bios" /\ ~state.temp_monitoring_active
  /\ state.current_temp = Some(high_milli + 1)

\* C13: under any interleaving of ticks and set commands, last_fan_write is
\* Some only if actual_mode is Max.
C13_TimestampOnlyInMax ==
  state.last_fan_write # NoneV => state.actual_mode = "Max"

\* Where the monitor thread is about to write, and where it commits.
MonitorWrites == {"max_write", "to_max_write", "rewrite_write", "to_bios_write"}
MonitorCommits == {"max_commit", "to_max_commit", "rewrite_commit", "to_bios_commit"}

\* A step of the monitor thread other than the passing of time.
MonitorStep == pc' = pc /\ sleep_left' >= sleep_left

\* C15: a failed fan write of the monitor leaves actual_mode, last_fan_write
\* and the control point as they were; the monitor changes the two fields only
\* in a commit, and a commit only follows a successful write.
C15_FailedWriteLeavesMode ==
  [][MonitorStep
       => /\ (mpc \in MonitorWrites /\ mpc' = "sleep")
               => (state' = state /\ fan_file' = fan_file)
          /\ mpc \notin MonitorCommits
               => /\ state'.actual_mode = state.actual_mode
                  /\ state'.last_fan_write = state.last_fan_write
          /\ mpc' \in MonitorCommits
               => /\ mpc \in MonitorWrites
                  /\ tick_write'.ok
                  /\ fan_file' = FanValue(tick_write'.mode)]_vars

C15_Witness ==
  /\ mpc = "sleep" /\ sleep_left = temp_check_interval
  /\ state.user_mode = "Auto" /\ state.actual_mode = "Bios"
  /\ state.last_fan_write = NoneV
  /\ state.consecutive_high_temps >= consecutive_high_temp_limit
  /\ fan_file = "2"

\* C17: a tick whose sensor read fails ends at once with the whole state and
\* the control point unchanged, a due re-assertion of Max included.
C17_FailedReadSkipsTick ==
  [][(pc' = pc /\ mpc = "sleep" /\ sleep_left = 0 /\ mpc' = "sleep")
       => /\ state' = state
          /\ fan_file' = fan_file
          /\ tick_write' = NoWrite]_vars

C17_Witness ==
  /\ mpc = "sleep" /\ sleep_left = temp_check_interval
  /\ state.current_temp = NoneV
  /\ state.user_mode = "Max"
  /\ max_fan_write_interval # NoneV
  /\ state.last_fan_write = max_fan_write_interval

\* C19: a set command issues its one fan write in the step after its state
\* update and before it responds; the write is of the mode it resolved (Max for
\* max, Bios for bios, for auto Max exactly when the sensor read is above
\* temp_threshold_high); it never writes the performance profile.
C19_OneFanWritePerSet ==
  [][/\ \A sensor \in SensorOutcomes :
          /\ ResolveActualMode("Max", sensor) = "Max"
          /\ ResolveActualMode("Bios", sensor) = "Bios"
          /\ ResolveActualMode("Auto", sensor) =
               (IF sensor # SensorErr /\ Val(sensor) > high_milli THEN "Max" ELSE "Bios")
     /\ \A t \in CmdThreads :
          /\ pc[t] \in {"set_update", "set_write"}
               => (cmd_write[t] = NoWrite /\ response[t] = <<>>)
          /\ (pc[t] = "set_write" /\ pc'[t] # "set_write")
               => /\ cmd_write'[t].kind = "fan"
                  /\ cmd_write'[t].why = "set"
                  /\ cmd_write'[t].mode = actual_mode_to_set[t]
                  /\ new_mode[t] = "Max" => cmd_write'[t].mode = "Max"
                  /\ new_mode[t] = "Bios" => cmd_write'[t].mode = "Bios"
                  /\ cmd_write'[t].ok => fan_file' = FanValue(actual_mode_to_set[t])
          /\ (new_mode'[t] \in FanMode /\ cmd_write'[t] # cmd_write[t])
               => pc[t] = "set_write"
          /\ (new_mode'[t] \in FanMode /\ pc'[t] \in {"respond", "applied"})
               => cmd_write'[t].kind = "fan"]_vars

C19_Witness ==
  \E t \in Handlers :
    /\ pc[t] = "respond" /\ request[t] = R_set_auto
    /\ cmd_write[t].kind = "fan" /\ cmd_write[t].mode = "Max" /\ cmd_write[t].ok
    /\ state.actual_mode = "Max" /\ fan_file = "0"

\* C20: a set_performance command changes performance_mode and nothing else in
\* the state, issues its one write, to the performance profile, in the step
\* after, and never touches the fan control point; performance_mode changes in
\* no other step; neither the monitor nor a set command writes the profile.
C20_PerformanceIndependent ==
  [][/\ \A t \in Handlers :
          /\ (pc[t] = "idle" /\ pc'[t] = "perf_write")
               => /\ state' = [state EXCEPT !.performance_mode = new_mode'[t]]
                  /\ fan_file' = fan_file
                  /\ cmd_write'[t] = NoWrite
          /\ (pc[t] = "perf_write" /\ pc'[t] # "perf_write")
               => /\ state' = state
                  /\ fan_file' = fan_file
                  /\ cmd_write'[t].kind = "perf"
                  /\ cmd_write'[t].value = PerformanceMode_Display(new_mode[t])
          /\ (cmd_write'[t] # cmd_write[t] /\ cmd_write'[t].kind = "perf")
               => pc[t] = "perf_write"
     /\ state'.performance_mode # state.performance_mode
          => \E t \in Handlers : pc[t] = "idle" /\ pc'[t] = "perf_write"
     /\ tick_write'.kind # "perf"
     /\ \A t \in CmdThreads : new_mode'[t] \in FanMode => cmd_write'[t].kind # "perf"]_vars

C20_Witness ==
  \E t \in Handlers :
    /\ pc[t] = "respond" /\ cmd_write[t].kind = "perf" /\ cmd_write[t].ok
    /\ state.performance_mode = "Balanced"
    /\ state.user_mode = "Max" /\ state.last_fan_write # NoneV

\* C14: when the fan write of a set command fails, the client gets an ERROR:
\* response and user_mode, actual_mode, last_fan_write and
\* temp_monitoring_active are as they were before the command.
C14_FailedSetLeavesState ==
  \A t \in Handlers :
    (pc[t] = "respond" /\ cmd_write[t].kind = "fan" /\ ~cmd_write[t].ok)
      => /\ StartsWith(response[t], S_ErrorPrefix)
         /\ state.user_mode = cmd_before.user_mode
         /\ state.actual_mode = cmd_before.actual_mode
         /\ state.last_fan_write = cmd_before.last_fan_write
         /\ state.temp_monitoring_active = cmd_before.temp_monitoring_active

\* The mode the monitor writes at a write position.
WriteModeAt(at) == IF at = "to_bios_write" THEN "Bios" ELSE "Max"

\* C16: while a fan write has failed and has neither been made again nor been
\* superseded by a set command, every monitor cycle that reads the sensor
\* attempts that write.
C16_FailedWriteRetried ==
  [][(failed_write # None /\ mpc \in {"check", "auto"} /\ mpc' # mpc)
       => /\ mpc' # "sleep"
          /\ mpc' \in MonitorWrites => WriteModeAt(mpc') = failed_write]_vars

\* C18: a tick whose transition write fails ends with both counters at the
\* values they had when the tick began.
C18_FailedWriteKeepsCounters ==
  [][(mpc \in {"to_max_write", "to_bios_write"} /\ mpc' = "sleep")
       => /\ state'.consecutive_high_temps = tick_before[1]
          /\ state'.consecutive_low_temps = tick_before[2]]_vars

\* C21: when the platform-profile write of set_performance fails, the response
\* is an ERROR and performance_mode is what it was before the command.
C21_FailedPerfLeavesMode ==
  \A t \in Handlers :
    (pc[t] = "respond" /\ cmd_write[t].kind = "perf" /\ ~cmd_write[t].ok)
      => /\ StartsWith(response[t], S_ErrorPrefix)
         /\ state.performance_mode = cmd_before.performance_mode

\* A handler answers a status request in this step.
IsStatusStep(t) ==
  pc[t] = "idle" /\ pc'[t] = "respond" /\ split_whitespace(request'[t]) = <<S_status>>

\* C22: a status response reports user_mode, actual_mode, performance_mode and
\* the temperature as they are together in the state at that step; the
\* temperature is that of the latest successful monitor sample, in whole
\* degrees, and Unknown exactly when no monitor sample has succeeded yet (the
\* stored sample starts absent, is replaced by every successful sample and
\* changes in no other step); the status step changes no state and writes
\* nothing.
C22_StatusIsSnapshot ==
  [][/\ IsSample => (current_temp' # NoneV /\ state'.current_temp = current_temp')
     /\ state'.current_temp # state.current_temp => IsSample
     /\ ~state_created => state.current_temp = NoneV
     /\ \A t \in Handlers :
          IsStatusStep(t)
            => /\ state' = state /\ fan_file' = fan_file
               /\ cmd_write'[t] = NoWrite /\ mpc' = mpc /\ tick_write' = tick_write
               /\ StartsWith(response'[t], S_OkPrefix)
               /\ Contains(response'[t], S_ModeLabel \o FanMode_Display(state.user_mode)
                     \o S_ActualLabel \o HardwareFanMode_Debug(state.actual_mode)
                     \o S_PerformanceLabel \o PerformanceMode_Display(state.performance_mode)
                     \o S_TempLabel)
               /\ (state.current_temp = NoneV
                     <=> Contains(response'[t], S_TempLabel \o S_Unknown))
               /\ state.current_temp # NoneV
                    => Contains(response'[t],
                         S_TempLabel \o IntToStr(Val(state.current_temp) \div 1000)
                           \o S_DegC \o S_Newline)]_vars

C22_Witness ==
  \E t \in Handlers :
    /\ pc[t] = "respond" /\ request[t] = R_status
    /\ state.current_temp = Some(high_milli + 1)
    /\ state.user_mode = "Auto" /\ state.actual_mode = "Max"
    /\ Contains(response[t], S_TempLabel \o <<"7", "5">> \o S_DegC)

C24_MaxTickEnsuresMax ==
  [][(mpc \in {"check", "max_commit"} /\ mpc' = "sleep" /\ state.user_mode = "Max")
       => (fan_file' = FanValue("Max") /\ state'.actual_mode = "Max")]_vars

\* C25: with an interval configured, a tick that finds Auto holding Max
\* re-writes Max when the interval has elapsed since the last write or when no
\* write timestamp exists, and a successful re-write restarts the timer.
C25_AutoMaxReasserted ==
  [][/\ (AutoBlockStep /\ state.user_mode = "Auto" /\ state.actual_mode = "Max"
           /\ max_fan_write_interval # NoneV
           /\ (state.last_fan_write = NoneV \/ Elapsed(state)))
          => mpc' = "rewrite_write"
     /\ (mpc = "rewrite_commit" /\ mpc' = "sleep") => state'.last_fan_write = Some(0)]_vars

\* C26: when the daemon has exited on a fatal startup error, no DaemonState was
\* constructed, main issued no fan write and the monitor thread was not started.
C26_FatalBeforeAnyState ==
  pc[Main] = "exited"
    => (~state_created /\ cmd_write[Main] = NoWrite /\ mpc = "unstarted")

\* The literals of the fan control point.
FanLiteral(mode) == IF mode = "Max" THEN "0" ELSE "2"

\* C27: every successful fan write, of a command or of the monitor, leaves the
\* control point holding "0" for Max and "2" for Bios whatever it held before
\* (so a write of the value already there leaves it as it is); a set command
\* answered with the NotFound error of no matching file has left it untouched;
\* and the control point changes in no other step.
C27_WholeValueOverwrite ==
  [][/\ \A t \in CmdThreads :
          (pc[t] = "set_write" /\ pc'[t] # "set_write")
            => /\ cmd_write'[t].ok => fan_file' = FanLiteral(cmd_write'[t].mode)
               /\ Contains(response'[t], S_NoFanFile)
                    => (~cmd_write'[t].ok /\ fan_file' = fan_file)
     /\ (pc' = pc /\ mpc \in MonitorWrites /\ mpc' # mpc)
          => (mpc' # "sleep" => fan_file' = FanLiteral(WriteModeAt(mpc)))
     /\ fan_file' # fan_file
          => \/ \E t \in CmdThreads : pc[t] = "set_write" /\ pc'[t] # "set_write"
             \/ pc' = pc /\ mpc \in MonitorWrites]_vars

\* A re-write of Max onto a control point that already holds "0".
C27_Witness ==
  /\ mpc = "rewrite_commit" /\ tick_write.kind = "fan" /\ tick_write.ok
  /\ fan_file = "0" /\ state.actual_mode = "Max"
  /\ state.last_fan_write = max_fan_write_interval

C29_RecordedModeIsLastWritten ==
  (Started /\ mpc = "sleep" /\ HandlersIdle /\ fan_file = FanValue("Max"))
    => state.actual_mode = "Max"

\* The hardware modes a set command may resolve for a mode, over every outcome
\* of its one sensor read.
Resolvable(mode) == {ResolveActualMode(mode, sensor) : sensor \in SensorOutcomes}

\* C30: set max resolves Max and set bios resolves Bios whatever the sensors
\* say; set auto resolves Max exactly when its sensor read succeeds with a
\* value above temp_threshold_high * 1000, and Bios otherwise, a failed read
\* included.  Every set command, main's initial Auto among them, enters its
\* update with the mode it was asked for and a hardware mode resolved by this
\* rule, and the update records that hardware mode.
C30_ResolutionRule ==
  [][/\ \A sensor \in SensorOutcomes :
          /\ ResolveActualMode("Max", sensor) = "Max"
          /\ ResolveActualMode("Bios", sensor) = "Bios"
          /\ ResolveActualMode("Auto", sensor) \in HardwareFanMode
          /\ ResolveActualMode("Auto", sensor) = "Max"
               <=> (sensor # SensorErr /\ Val(sensor) >= high_milli + 1)
     /\ ResolveActualMode("Auto", SensorErr) = "Bios"
     /\ ResolveActualMode("Auto", Some(high_milli)) = "Bios"
     /\ ResolveActualMode("Auto", Some(high_milli + 1)) = "Max"
     /\ \A t \in CmdThreads :
          /\ (pc[t] # "set_update" /\ pc'[t] = "set_update")
               => /\ t = Main => new_mode'[t] = "Auto"
                  /\ t # Main
                       => to_lowercase(FanMode_Display(new_mode'[t]))
                            = to_lowercase(split_whitespace(request'[t])[2])
                  /\ actual_mode_to_set'[t] \in Resolvable(new_mode'[t])
          /\ (pc[t] = "set_update" /\ pc'[t] = "set_write")
               => /\ state'.actual_mode = actual_mode_to_set[t]
                  /\ state'.user_mode = new_mode[t]]_vars

\* The initial Auto application resolved Max from a hot sensor.
C30_Witness ==
  /\ pc[Main] = "set_update"
  /\ new_mode[Main] = "Auto" /\ actual_mode_to_set[Main] = "Max"
  /\ state.actual_mode = "Bios"

\* C31: once a set bios command has made its write and no set command has begun
\* since, no step of the monitor writes Max to the fan control point, records
\* the hardware mode Max or records a write timestamp, even when the command
\* ran while a tick was in progress.
C31_BiosStopsMonitor ==
  [][(last_set = "Bios" /\ pc' = pc
        /\ \A t \in CmdThreads : pc[t] \notin {"set_update", "set_write"})
       => /\ ~(mpc \in MonitorWrites /\ WriteModeAt(mpc) = "Max" /\ mpc' # mpc)
          /\ state'.actual_mode # "Max"
          /\ state'.last_fan_write = NoneV]_vars

\* C32: a tick that finds Auto holding Max with the re-assertion due goes from
\* its auto block straight to the re-write of Max, with no change of the state;
\* the write is followed by the end of the tick (on failure) or by a commit
\* that changes last_fan_write alone, to now; neither counter is touched and
\* no Max->Bios transition is made in that tick, whatever the sample.
C32_ReassertionSkipsTick ==
  [][/\ (AutoBlockStep /\ state.user_mode = "Auto" /\ state.actual_mode = "Max"
           /\ max_fan_write_interval # NoneV /\ state.last_fan_write # NoneV
           /\ Val(state.last_fan_write) >= Val(max_fan_write_interval))
          => (mpc' = "rewrite_write" /\ state' = state)
     /\ mpc' = "rewrite_write" /\ mpc # "rewrite_write"
          => (AutoBlockStep /\ state.actual_mode = "Max" /\ state' = state)
     /\ (mpc = "rewrite_write" /\ mpc' # mpc)
          => (mpc' \in {"rewrite_commit", "sleep"} /\ state' = state)
     /\ (mpc = "rewrite_commit" /\ mpc' # mpc)
          => /\ mpc' = "sleep"
             /\ state' = [state EXCEPT !.last_fan_write = Some(0)]
             /\ fan_file' = fan_file
     /\ (mpc \in {"rewrite_write", "rewrite_commit"} /\ mpc' = "sleep")
          => /\ state'.consecutive_high_temps = tick_before[1]
             /\ state'.consecutive_low_temps = tick_before[2]
             /\ state'.actual_mode = "Max" /\ state'.user_mode = "Auto"]_vars

C32_Witness ==
  /\ mpc = "rewrite_commit" /\ current_temp = Some(low_milli)
  /\ state.user_mode = "Auto" /\ state.actual_mode = "Max"
  /\ state.consecutive_low_temps = consecutive_low_temp_limit - 1

\* C33: with no set command, every write succeeding and every sample taken
\* while Auto holds Max at or below temp_threshold_low, a hardware mode Max
\* reached by a hysteresis transition (which records a write timestamp) is
\* eventually followed by the hardware mode Bios, for every interval.
C33_CoolingReachesBios ==
  (state.user_mode = "Auto" /\ state.actual_mode = "Max" /\ state.last_fan_write # NoneV)
    ~> (state.actual_mode = "Bios")

\* The readings of the present sensor files that can be opened, read and parsed.
Readings ==
  {Val(SensorReading(temp_inputs[i])) :
     i \in {j \in 1..Len(temp_inputs) : SensorReading(temp_inputs[j]) # NoneV}}

\* C34: read_temperature returns the largest reading among the sensor files that
\* can be opened and parsed; files that cannot are ignored; it fails exactly
\* when no file matches or no file gives a reading.
C34_SampleIsMaxReadable ==
  read_current =>
    /\ temp_read.ok <=> Readings # {}
    /\ temp_read.ok => /\ temp_read.temp \in Readings
                       /\ \A r \in Readings : r <= temp_read.temp
    /\ (temp_inputs = <<>>) => (~temp_read.ok /\ temp_read.kind = "NotFound")

\* Three files were read: a cooler one, one that cannot be opened, a hotter one last.
C34_Witness ==
  /\ read_current
  /\ Len(temp_inputs) = 3
  /\ temp_inputs[1].io = "Ok" /\ SensorReading(temp_inputs[1]) = Some(70000)
  /\ temp_inputs[2] = OpenFails
  /\ SensorReading(temp_inputs[3]) = Some(75001)
  /\ temp_read.ok /\ temp_read.temp = 75001

\* C35: a monitor tick issues at most one fan write: whichever of the four
\* writes (Max-mode re-assertion, Auto-mode re-assertion, Bios->Max, Max->Bios)
\* the monitor makes, it has made no other since the sample of that tick.
C35_OneWritePerTick ==
  [][(pc' = pc /\ mpc \in MonitorWrites /\ mpc' # mpc)
       => /\ tick_write = NoWrite
          /\ (mpc = "max_write") = ~should_handle_auto_mode
          /\ mpc' \notin MonitorWrites \cup {"auto"}]_vars

\* The max-mode block has written and is about to end the tick.
C35_Witness ==
  /\ mpc = "max_commit" /\ tick_write.kind = "fan" /\ tick_write.why = "max_mode"
  /\ ~should_handle_auto_mode /\ state.user_mode = "Max"

\* C36: with no set command overlapping the tick, a monitor step taken while
\* user_mode is Bios writes nothing and changes no field of the state but the
\* stored sample, and a monitor step taken while user_mode is Max changes
\* neither hysteresis counter.
C36_IdleTickFrame ==
  [][(state_created /\ MonitorStep)
       => /\ (state.user_mode = "Bios")
               => /\ state' = [state EXCEPT !.current_temp = state'.current_temp]
                  /\ fan_file' = fan_file
                  /\ mpc' \notin MonitorWrites \cup MonitorCommits \cup {"auto"}
                  /\ tick_write' = NoWrite
          /\ (state.user_mode = "Max")
               => /\ state'.consecutive_high_temps = state.consecutive_high_temps
                  /\ state'.consecutive_low_temps = state.consecutive_low_temps
                  /\ mpc' # "auto"]_vars

\* A tick in user mode Bios has stored a hot sample and is at its check block,
\* with a re-assertion interval configured.
C36_Witness ==
  /\ mpc = "check" /\ state.user_mode = "Bios" /\ state.actual_mode = "Bios"
  /\ state.current_temp = Some(high_milli + 1)
  /\ max_fan_write_interval # NoneV
  /\ \A t \in Handlers : pc[t] = "idle"

\* C37: the SystemState that get_current_state derives from the daemon's answer
\* to "status" has the daemon's user mode as fan_mode and the daemon's
\* performance mode as performance_mode, whatever the hardware mode is.
C37_StatusRoundTrip ==
  \A t \in Handlers :
    (pc[t] = "respond" /\ request[t] = S_status)
      => /\ get_current_state(response[t]).result = "Ok"
         /\ get_current_state(response[t]).fan_mode = state.user_mode
         /\ get_current_state(response[t]).performance_mode = state.performance_mode

\* A status answer given in Auto mode with the hardware at Max and a sample stored.
C37_Witness ==
  \E t \in Handlers :
    /\ pc[t] = "respond" /\ request[t] = S_status
    /\ state.user_mode = "Auto" /\ state.actual_mode = "Max"
    /\ state.performance_mode = "Balanced"
    /\ state.current_temp # NoneV

\* C38: the command DaemonClient builds for a fan mode or a performance mode is
\* parsed by the daemon into that same mode, and the client call succeeds
\* exactly when the daemon's response starts with OK:, which is exactly when
\* the daemon's write succeeded.
C38_CommandRoundTrip ==
  \A t \in Handlers :
    /\ \A m \in FanMode :
         (request[t] = ClientSetCommand(m) /\ pc[t] # "idle")
           => /\ new_mode[t] = m
              /\ pc[t] = "respond"
                   => /\ ClientResult(response[t]) = "Ok" <=> StartsWith(response[t], C_Ok)
                      /\ ClientResult(response[t]) = "Ok" <=> cmd_write[t].ok
                      /\ ClientResult(response[t]) # "InvalidData"
    /\ \A m \in PerformanceMode :
         (request[t] = ClientPerfCommand(m) /\ pc[t] # "idle")
           => /\ new_mode[t] = m
              /\ pc[t] = "respond"
                   => /\ ClientResult(response[t]) = "Ok" <=> StartsWith(response[t], C_Ok)
                      /\ ClientResult(response[t]) = "Ok" <=> cmd_write[t].ok
                      /\ ClientResult(response[t]) # "InvalidData"

\* The client's command for Auto was refused by the hardware and answered.
C38_Witness ==
  \E t \in Handlers :
    /\ pc[t] = "respond" /\ request[t] = ClientSetCommand("Auto")
    /\ new_mode[t] = "Auto" /\ ClientResult(response[t]) = "Other"

\* C39: in fans.rs, in Auto mode, once the control thread has forced Max, the
\* first later sample at or below TEMP_THRESHOLD switches the fans back to
\* Bios: actual_mode becomes Bios and the thread goes on to write "2".
C39_FirstCoolSampleRestoresBios ==
  [][(fct_pc = "auto" /\ fct_pc' # "auto" /\ forced_max
        /\ app_state.user_mode = "Auto" /\ app_state.actual_mode = "Max"
        /\ fct_temp' # NoneV /\ Val(fct_temp') <= TEMP_THRESHOLD)
       => /\ app_state'.actual_mode = "Bios"
          /\ fct_pc' = "to_bios_write"]_vars

====
